---- MODULE Spec2Model ----
(***************************************************************************)
(* Verification model of canedge-mdftoparquet-automation.                  *)
(*                                                                         *)
(*   Spec      the backlog run: entry script -> download_backlog_json ->   *)
(*             process_backlog -> size optimisation -> process_mdf_batches *)
(*             -> exit status (modules/utils.py, mdftoparquet-backlog/)    *)
(*   SpecTrip  the trip segmenter get_trip_windows in its two variants     *)
(*             (modules/aggregation.py, aggregate-data-from-s3-vA.0.2.py)  *)
(*   SpecAgg   the aggregation of one device and day over its trip windows *)
(*   SpecLake  process_data_lake over the dates of the configuration       *)
(*   SpecEvents    process_events and create_df_signal_event               *)
(*   SpecListing   list_objects and list_objects_with_pagination           *)
(*   SpecGeo       check_geofence over one row                             *)
(*   SpecTemp      the temporary directories of one unit of work           *)
(*   SpecClusters  the loop of process_data_lake over the device clusters  *)
(*                                                                         *)
(* An object path is modelled as the sequence path.split('/'): the string  *)
(* "AAAAAAAA/00000001/" is <<"AAAAAAAA", "00000001", "">>, the empty       *)
(* string is <<"">>.                                                       *)
(***************************************************************************)
EXTENDS Integers, Sequences, FiniteSets, TLC

VARIABLES
    \* ---- backlog run ----
    pc,                 \* position of the backlog run
    mode,               \* the caller: "direct", "script", "entry"; "none" until it is known
    IN_GLUE_ENV,        \* process_backlog_amazon_entry.py:30
    storage,            \* object names in the input bucket
    manifest,           \* what download_backlog_json found
    min_batch_size,
    max_batch_size,
    result,             \* process_backlog: result
    processed_sessions, \* process_backlog: processed_sessions
    session_lists,      \* process_backlog: session_lists (insertion-ordered dict)
    total_items,        \* number of items consumed in the current entry list
    n_lists,            \* entry lists finished so far
    n_items,            \* items consumed in the whole planning pass
    seen_refs,          \* history: normalised items consumed so far
    listed,             \* history: prefixes the storage was asked to list
    provisional,        \* history: batches returned by process_backlog
    backlog_batches,    \* batches handed to process_mdf_batches
    optimized,          \* whether the size optimisation ran
    dispatched,         \* history: batches given to mdf_to_parquet, in order
    outcomes,           \* history: how each mdf_to_parquet call ended
    batch_results,      \* process_mdf_batches: batch_results
    ret,                \* return value of process_backlog_from_cloud
    main_result,        \* process_backlog_amazon.main()
    process_result,     \* process_backlog_amazon_entry.process()
    exit_status,        \* exit status of the entry script
    \* ---- trip segmenter ----
    tpc,
    has_time_column,    \* whether the trip table has the time column the variant reads
    timestamps,         \* time column of the trip table, in file order
    trip_gap_min,
    trip_min_length_min,
    df_index,           \* df.index after df.sort_values('TimeStamp')
    trip_windows,       \* AggregateData.get_trip_windows
    trip_windows_s3,    \* AggregateDataLake.get_trip_windows
    \* ---- signal aggregator ----
    apc,
    table,              \* rows [t, X] of the message table; X is {} (null) or {value}
    signals,            \* requested signals
    aggregation_types,  \* requested aggregation types
    agg_windows,        \* trip windows of the device, in the caller's order
    n_windows,          \* trip windows the caller's loop has passed
    device_results,     \* AggregateData.process_single_device: device_results
    device_results_s3,  \* AggregateDataLake.process_single_device: device_results
    \* ---- data lake run ----
    lpc,                \* AggregateData.process_data_lake
    lpc_s3,             \* AggregateDataLake.process_data_lake
    date_config,        \* config.date of the aggregations manifest
    devices,            \* the devices of the device clusters, in manifest order
    unit,               \* what process_single_device meets, per day of the range and device
    start_date,         \* AggregateData.start_date
    end_date,           \* AggregateData.end_date
    n_days,             \* dates the loop of AggregateData.process_data_lake has passed
    n_days_s3,
    days_processed,
    days_processed_s3,
    written,            \* calls of write_results_to_parquet with results: [date, results]
    written_s3,
    \* ---- event detector ----
    epc,
    events_cfg,         \* events.json: the events, each with one trigger signal
    decoded_files,      \* the trigger signal's column of each decoded file, in time order
    n_events,           \* events the loop of process_events has passed
    n_files,            \* files of the current event the loop has passed
    message_sent,
    df_signal_event,    \* the event records of the file passed last
    notifications,      \* calls of publish_message: [event, file, time, published, outcome]
    custom_files,       \* the event tables written: [event, file, records]
    \* ---- storage listing ----
    lspc,
    bucket_keys,        \* the keys of the bucket
    list_prefix,        \* the prefix listed
    max_keys,           \* the most keys the backend puts in one page
    continuation_token, \* list_objects_with_pagination: keys delivered so far, 0 for None
    is_truncated,
    all_objects,        \* list_objects_with_pagination: all_objects
    list_calls,         \* calls of client.list_objects_v2 by list_objects_with_pagination
    listed_objects,     \* list_objects: result
    \* ---- geofence check ----
    gpc,
    geo_row,            \* the row's position: [Latitude, Longitude]
    geofences,          \* the configured geofences: [id, latitude, longitude, radius]
    GeofenceId,         \* the value check_geofence returns for the row
    \* ---- temporary directories of one unit of work ----
    dpc,
    temp_unit,          \* "aggregator", "aggregator_s3" or "entry"
    temp_plan,          \* what the steps of the unit meet, in the order of the steps
    temp_step,          \* elements of temp_plan the unit has consumed
    temp_dirs,          \* the directories of the unit that exist: [path, parent]
    temp_created,       \* the directories the unit has created
    temp_ret,           \* what the unit returns
    \* ---- cluster loop of process_data_lake ----
    device_clusters,    \* config["device_clusters"]: [cluster, devices]
    cluster_details,    \* config["cluster_details"]: [cluster, clusters]
    cluster_run,        \* AggregateData: [pc, day, n_clusters, daily_results, written]
    cluster_run_s3      \* AggregateDataLake: the same

backlog_vars == <<pc, mode, IN_GLUE_ENV, storage, manifest, min_batch_size, max_batch_size,
                  result, processed_sessions, session_lists, total_items, n_lists, n_items,
                  seen_refs, listed, provisional, backlog_batches, optimized, dispatched,
                  outcomes, batch_results, ret, main_result, process_result, exit_status>>
trip_vars == <<tpc, has_time_column, timestamps, trip_gap_min, trip_min_length_min, df_index, trip_windows,
              trip_windows_s3>>
agg_vars == <<apc, table, signals, aggregation_types, agg_windows, n_windows, device_results,
             device_results_s3>>
lake_vars == <<lpc, lpc_s3, date_config, devices, unit, start_date, end_date, n_days, n_days_s3,
              days_processed, days_processed_s3, written, written_s3>>
event_vars == <<epc, events_cfg, decoded_files, n_events, n_files, message_sent, df_signal_event,
               notifications, custom_files>>
listing_vars == <<lspc, bucket_keys, list_prefix, max_keys, continuation_token, is_truncated,
                 all_objects, list_calls, listed_objects>>
geo_vars == <<gpc, geo_row, geofences, GeofenceId>>
temp_vars == <<dpc, temp_unit, temp_plan, temp_step, temp_dirs, temp_created, temp_ret>>
cluster_vars == <<device_clusters, cluster_details, cluster_run, cluster_run_s3>>
core_vars == <<backlog_vars, trip_vars, agg_vars, lake_vars, event_vars>>
more_vars == <<listing_vars, geo_vars, temp_vars, cluster_vars>>
vars == <<backlog_vars, trip_vars, agg_vars, lake_vars, event_vars, more_vars>>


-----------------------------------------------------------------------------
(* Generic helpers *)

Last(s) == s[Len(s)]

Range(s) == {s[i] : i \in 1..Len(s)}

NoDup(s) == \A i, j \in 1..Len(s) : i # j => s[i] # s[j]

RECURSIVE FlattenSeq(_)
FlattenSeq(ss) == IF ss = <<>> THEN <<>> ELSE Head(ss) \o FlattenSeq(Tail(ss))

-----------------------------------------------------------------------------
(* Path segments of the model universe *)

DEV1 == "AAAAAAAA"
DEV2 == "BBBBBBBB"
SES1 == "00000001"
SES2 == "00000002"

\* [0-9A-F]{8}
IsHex8(seg) == seg \in {DEV1, DEV2, SES1, SES2}

\* [0-9]{8}
IsDigit8(seg) == seg \in {SES1, SES2}

\* '.' in seg
HasDot(seg) == seg \in {"a.MF4", "b.mf4", "c.MFE", "n.TXT"}

\* the last four characters of seg.upper()
UpperSuffix(seg) ==
    CASE seg = "a.MF4" -> ".MF4"
      [] seg = "b.mf4" -> ".MF4"
      [] seg = "c.MFE" -> ".MFE"
      [] seg = "n.TXT" -> ".TXT"
      [] OTHER -> seg

valid_extensions == {".MF4", ".MFC", ".MFE", ".MFM"}

\* Python's string order on the object names of the model universe
PathOrder ==
    << <<DEV1, SES1, "a.MF4">>, <<DEV1, SES1, "b.mf4">>, <<DEV1, SES1, "n.TXT">>,
       <<DEV1, SES2, "c.MFE">>, <<DEV1, "n.TXT">> >>

\* sorted(S) for a set of object names
RECURSIVE SortedFrom(_, _)
SortedFrom(S, i) ==
    IF i > Len(PathOrder) THEN <<>>
    ELSE (IF PathOrder[i] \in S THEN <<PathOrder[i]>> ELSE <<>>) \o SortedFrom(S, i + 1)

Sorted(S) == SortedFrom(S, 1)

\* sorted(S) for a set of session prefixes <<device, session, "">>
SessionOrder == << <<DEV1, SES1, "">>, <<DEV1, SES2, "">>, <<DEV2, SES1, "">>, <<DEV2, SES2, "">> >>

RECURSIVE SortedSessionsFrom(_, _)
SortedSessionsFrom(S, i) ==
    IF i > Len(SessionOrder) THEN <<>>
    ELSE (IF SessionOrder[i] \in S THEN <<SessionOrder[i]>> ELSE <<>>)
         \o SortedSessionsFrom(S, i + 1)

-----------------------------------------------------------------------------
(* String operations on paths *)

EmptyPath == <<"">>

EndsWithSlash(path) == Len(path) >= 2 /\ Last(path) = ""

\* name.startswith(prefix), for a prefix that ends with '/'
StartsWith(name, prefix) ==
    /\ Len(name) >= Len(prefix)
    /\ \A i \in 1..(Len(prefix) - 1) : name[i] = prefix[i]

has_valid_extension(filename) == UpperSuffix(Last(filename)) \in valid_extensions

is_likely_file_path(path) == has_valid_extension(path) \/ HasDot(Last(path))

normalize_prefix(path) ==
    IF path = EmptyPath THEN path
    ELSE IF is_likely_file_path(path) THEN path
    ELSE IF ~EndsWithSlash(path) THEN Append(path, "")
    ELSE path

\* re.match(r'^[0-9A-F]{8}/$', item)
MatchesDevice(item) == Len(item) = 2 /\ IsHex8(item[1]) /\ item[2] = ""

\* re.match(r'^[0-9A-F]{8}/[0-9]{8}/$', item)
MatchesSession(item) ==
    Len(item) = 3 /\ IsHex8(item[1]) /\ IsDigit8(item[2]) /\ item[3] = ""

-----------------------------------------------------------------------------
(* Insertion-ordered dict: a sequence of [k, v] records with distinct keys *)

DictKeys(d) == {d[i].k : i \in 1..Len(d)}

DictGet(d, key) == (CHOOSE i \in 1..Len(d) : d[i].k = key) \* index of key
DictVal(d, key) == d[DictGet(d, key)].v

DictSet(d, key, val) ==
    IF key \in DictKeys(d)
    THEN [d EXCEPT ![DictGet(d, key)] = [k |-> key, v |-> val]]
    ELSE Append(d, [k |-> key, v |-> val])

-----------------------------------------------------------------------------
(* Storage listing *)

\* the objects under a prefix, in the order the backend returns them
list_objects_with_pagination(prefix) ==
    Sorted({name \in storage : StartsWith(name, prefix)})

\* re.match(f"^{device_prefix}([0-9]{{8}})/", name): the session prefix, <<>> for no match
SessionOf(device_prefix, name) ==
    IF StartsWith(name, device_prefix) /\ Len(name) >= 3 /\ IsDigit8(name[2])
    THEN <<name[1], name[2], "">>
    ELSE <<>>

RECURSIVE SelectValid(_)
SelectValid(names) ==
    IF names = <<>> THEN <<>>
    ELSE (IF has_valid_extension(Head(names)) THEN <<Head(names)>> ELSE <<>>)
         \o SelectValid(Tail(names))

RECURSIVE SelectSession(_, _, _)
SelectSession(names, device_prefix, session) ==
    IF names = <<>> THEN <<>>
    ELSE (IF SessionOf(device_prefix, Head(names)) = session THEN <<Head(names)>> ELSE <<>>)
         \o SelectSession(Tail(names), device_prefix, session)

\* returns sorted(list(sessions)) and objects_by_session
list_sessions(device_prefix) ==
    LET objects == list_objects_with_pagination(normalize_prefix(device_prefix))
        sessions == {SessionOf(device_prefix, objects[i]) : i \in 1..Len(objects)} \ {<<>>}
    IN [sessions |-> SortedSessionsFrom(sessions, 1),
        objects_by_session |->
            [s \in sessions |-> SelectValid(SelectSession(objects, device_prefix, s))]]

list_files_in_session(session_prefix) ==
    LET objects == list_objects_with_pagination(normalize_prefix(session_prefix))
    IN Sorted(Range(SelectValid(objects)))

-----------------------------------------------------------------------------
(* process_backlog: the planner state is [result, processed_sessions, session_lists] *)

RECURSIVE DeviceSessions(_, _, _)
\* for session in sessions (the loop of case 1)
DeviceSessions(st, sessions, objects_by_session) ==
    IF sessions = <<>> THEN st
    ELSE LET session == Head(sessions)
             files == objects_by_session[session]
         IN IF session \in st.processed_sessions
            THEN DeviceSessions(st, Tail(sessions), objects_by_session)
            ELSE DeviceSessions(
                    [st EXCEPT !.processed_sessions = @ \cup {session},
                               !.session_lists =
                                   IF files # <<>> THEN DictSet(@, session, files) ELSE @],
                    Tail(sessions), objects_by_session)

\* Case 1 (device prefix)
DeviceCase(st, item) ==
    LET ls == list_sessions(item)
    IN DeviceSessions(st, ls.sessions, ls.objects_by_session)

\* Case 2 (session prefix)
SessionCase(st, item) ==
    IF item \in st.processed_sessions THEN st
    ELSE LET st1 == [st EXCEPT !.processed_sessions = @ \cup {item}]
             files == list_files_in_session(item)
         IN IF item \in DictKeys(st.session_lists) /\ DictVal(st.session_lists, item) # <<>>
            THEN st1
            ELSE IF files # <<>>
                 THEN [st1 EXCEPT !.session_lists = DictSet(@, item, files)]
                 ELSE st1

\* whether case 2 calls list_files_in_session
SessionCaseLists(st, item) ==
    /\ item \notin st.processed_sessions
    /\ ~(item \in DictKeys(st.session_lists) /\ DictVal(st.session_lists, item) # <<>>)

\* index of the first list of result that holds files of the session, 0 for None
ExistingList(res, session_prefix) ==
    LET hits == {i \in 1..Len(res) : res[i] # <<>> /\ StartsWith(res[i][1], session_prefix)}
    IN IF hits = {} THEN 0 ELSE CHOOSE i \in hits : \A j \in hits : i <= j

\* result.pop(index)
Pop(res, index) == SubSeq(res, 1, index - 1) \o SubSeq(res, index + 1, Len(res))

\* Case 3 with the recovered list left in result
FileCaseNoPop(st, item) ==
    IF Len(item) >= 3
    THEN LET session_prefix == <<item[1], item[2], "">>
             existing_list == ExistingList(st.result, session_prefix)
             st1 == IF session_prefix \notin DictKeys(st.session_lists)
                    THEN IF session_prefix \in st.processed_sessions /\ existing_list # 0
                         THEN [st EXCEPT
                                 !.session_lists =
                                     DictSet(@, session_prefix, st.result[existing_list])]
                         ELSE [st EXCEPT !.session_lists = DictSet(@, session_prefix, <<>>)]
                    ELSE st
             files == DictVal(st1.session_lists, session_prefix)
         IN IF item \notin Range(files)
            THEN [st1 EXCEPT !.session_lists = DictSet(@, session_prefix, Append(files, item))]
            ELSE st1
    ELSE st

\* Case 3 (individual file)
FileCase(st, item) ==
    IF Len(item) >= 3
    THEN LET session_prefix == <<item[1], item[2], "">>
             existing_list == ExistingList(st.result, session_prefix)
             st1 == IF session_prefix \notin DictKeys(st.session_lists)
                    THEN IF session_prefix \in st.processed_sessions /\ existing_list # 0
                         THEN [st EXCEPT
                                 !.session_lists =
                                     DictSet(@, session_prefix, st.result[existing_list]),
                                 !.result = Pop(@, existing_list)]
                         ELSE [st EXCEPT !.session_lists = DictSet(@, session_prefix, <<>>)]
                    ELSE st
             files == DictVal(st1.session_lists, session_prefix)
         IN IF item \notin Range(files)
            THEN [st1 EXCEPT !.session_lists = DictSet(@, session_prefix, Append(files, item))]
            ELSE st1
    ELSE st

\* list(dict.fromkeys(files))
RECURSIVE UniqueFiles(_)
UniqueFiles(files) ==
    IF files = <<>> THEN <<>>
    ELSE LET init == UniqueFiles(SubSeq(files, 1, Len(files) - 1))
         IN IF Last(files) \in Range(init) THEN init ELSE Append(init, Last(files))

RECURSIVE NonEmptyLists(_)
NonEmptyLists(d) ==
    IF d = <<>> THEN <<>>
    ELSE (IF d[1].v # <<>> THEN <<UniqueFiles(d[1].v)>> ELSE <<>>) \o NonEmptyLists(Tail(d))

\* the end of one entry list: mark the sessions processed, append the groups to result
EndOfEntryList(st) ==
    [result |-> st.result \o NonEmptyLists(st.session_lists),
     processed_sessions |-> st.processed_sessions \cup DictKeys(st.session_lists),
     session_lists |-> <<>>]

-----------------------------------------------------------------------------
(* process_backlog_from_cloud: the size optimisation *)

\* first_file.split('/')[0] if '/' in first_file else None ("" stands for None: both are falsy)
DeviceIdOf(first_file) == IF Len(first_file) >= 2 THEN first_file[1] ELSE ""

\* Keys of device_batches: <<device_id>>, or <<"unknown_", n>> for f"unknown_{n}"
RECURSIVE GroupByDevice(_, _)
GroupByDevice(batches, device_batches) ==
    IF batches = <<>> THEN device_batches
    ELSE LET batch == Head(batches)
             device_id == DeviceIdOf(batch[1])
         IN IF batch = <<>> THEN GroupByDevice(Tail(batches), device_batches)
            ELSE IF device_id # ""
            THEN GroupByDevice(Tail(batches),
                    IF <<device_id>> \in DictKeys(device_batches)
                    THEN DictSet(device_batches, <<device_id>>,
                                 DictVal(device_batches, <<device_id>>) \o batch)
                    ELSE DictSet(device_batches, <<device_id>>, batch))
            ELSE GroupByDevice(Tail(batches),
                    DictSet(device_batches, <<"unknown_", Len(device_batches)>>, batch))

\* the split with only the first slice kept
SplitFilesFirstOnly(files, max_size) == <<SubSeq(files, 1, max_size)>>

\* for i in range(0, len(files), max_size): files[i:i + max_size]
RECURSIVE SplitFiles(_, _)
SplitFiles(files, max_size) ==
    IF files = <<>> THEN <<>>
    ELSE IF Len(files) <= max_size THEN <<files>>
    ELSE <<SubSeq(files, 1, max_size)>> \o SplitFiles(SubSeq(files, max_size + 1, Len(files)), max_size)

\* the device lists appended without the split
RECURSIVE FinalBatchesNoSplit(_, _)
FinalBatchesNoSplit(device_batches, max_size) ==
    IF device_batches = <<>> THEN <<>>
    ELSE <<device_batches[1].v>> \o FinalBatchesNoSplit(Tail(device_batches), max_size)

RECURSIVE FinalBatches(_, _)
FinalBatches(device_batches, max_size) ==
    IF device_batches = <<>> THEN <<>>
    ELSE LET files == device_batches[1].v
         IN (IF Len(files) > max_size THEN SplitFiles(files, max_size) ELSE <<files>>)
            \o FinalBatches(Tail(device_batches), max_size)

\* the condition of the optimisation
OptimizationTriggers(batches, items, min_size) == Len(batches) > 1 /\ items < min_size

OptimizedBatches(batches, max_size) == FinalBatches(GroupByDevice(batches, <<>>), max_size)

-----------------------------------------------------------------------------
(* Inputs of the backlog run *)

MaxItems == 3    \* references consumed in one planning pass
MaxLists == 2    \* entry lists of one process_backlog call

MinBatchSizes == {2, 4}
MaxBatchSizes == {1, 2, 3}

\* contents of the input bucket
Storages ==
    { Range(PathOrder),
      Range(PathOrder) \ {<<DEV1, SES1, "b.mf4">>},
      {<<DEV1, SES1, "n.TXT">>, <<DEV1, "n.TXT">>},
      {} }

\* items of the backlog: device, session and file references, and others
Refs ==
    { <<DEV1>>,
      <<DEV1, SES1>>,
      <<DEV1, SES1, "a.MF4">>, <<DEV1, SES1, "b.mf4">>,
      <<DEV2, SES1, "a.MF4">>, <<"", SES1, "a.MF4">>,
      <<"a.MF4">>, <<DEV1, "n.TXT">> }

\* backlog.json as download_backlog_json sees it
Manifests ==
    { m \in [found : BOOLEAN, json_ok : BOOLEAN, is_dict : BOOLEAN,
             has_files : BOOLEAN, files_empty : BOOLEAN, has_config : BOOLEAN,
             has_batch_size : BOOLEAN, has_min : BOOLEAN, has_max : BOOLEAN] :
        /\ (~m.found => ~m.json_ok)
        /\ (~m.json_ok => ~m.is_dict)
        /\ (~m.is_dict => ~m.has_files /\ ~m.has_config)
        /\ (~m.has_files => ~m.files_empty)
        /\ (~m.has_config => ~m.has_batch_size)
        /\ (~m.has_batch_size => ~m.has_min /\ ~m.has_max) }

NoManifest ==
    [found |-> FALSE, json_ok |-> FALSE, is_dict |-> FALSE, has_files |-> FALSE,
     files_empty |-> FALSE, has_config |-> FALSE, has_batch_size |-> FALSE,
     has_min |-> FALSE, has_max |-> FALSE]

\* whether download_backlog_json returns data["files"] (otherwise None)
ManifestAccepted(m) ==
    /\ m.found
    /\ m.json_ok
    /\ m.is_dict
    /\ m.has_files
    /\ m.has_config
    /\ m.has_batch_size
    /\ m.has_min
    /\ m.has_max

\* if not backlog_file_data
BacklogDataFalsy(m) == ~ManifestAccepted(m) \/ m.files_empty

\* outcomes of one mdf_to_parquet call
MdfOutcomes == {"ok", "decode_error", "raised"}

\* whether mdf_to_parquet raises to process_mdf_batches
mdf_to_parquet_raises(outcome) == outcome # "ok"

-----------------------------------------------------------------------------
(* The backlog run.  The caller of process_backlog_from_cloud and its        *)
(* environment (mode, IN_GLUE_ENV) are drawn when control returns to the     *)
(* caller: nothing reads them earlier.  The locals of process_backlog and    *)
(* of process_backlog_from_cloud, and the history kept about them, are       *)
(* dropped when the function returns.                                        *)

TripIdle ==
    /\ tpc = "idle"
    /\ has_time_column = TRUE
    /\ timestamps = <<>>
    /\ trip_gap_min = 0
    /\ trip_min_length_min = 0
    /\ df_index = <<>>
    /\ trip_windows = <<>>
    /\ trip_windows_s3 = <<>>

AggIdle ==
    /\ apc = "idle"
    /\ table = <<>>
    /\ signals = <<>>
    /\ aggregation_types = <<>>
    /\ agg_windows = <<>>
    /\ n_windows = 0
    /\ device_results = <<>>
    /\ device_results_s3 = <<>>

LakeIdle ==
    /\ lpc = "idle"
    /\ lpc_s3 = "idle"
    /\ date_config = [mode |-> "previous_day"]
    /\ devices = <<>>
    /\ unit = <<>>
    /\ start_date = 0
    /\ end_date = 0
    /\ n_days = 0
    /\ n_days_s3 = 0
    /\ days_processed = 0
    /\ days_processed_s3 = 0
    /\ written = <<>>
    /\ written_s3 = <<>>

EventsIdle ==
    /\ epc = "idle"
    /\ events_cfg = <<>>
    /\ decoded_files = <<>>
    /\ n_events = 0
    /\ n_files = 0
    /\ message_sent = FALSE
    /\ df_signal_event = <<>>
    /\ notifications = <<>>
    /\ custom_files = <<>>

ListingIdle ==
    /\ lspc = "idle"
    /\ bucket_keys = {}
    /\ list_prefix = ""
    /\ max_keys = 1
    /\ continuation_token = 0
    /\ is_truncated = FALSE
    /\ all_objects = <<>>
    /\ list_calls = 0
    /\ listed_objects = <<>>

GeoIdle ==
    /\ gpc = "idle"
    /\ geo_row = [Latitude |-> 0, Longitude |-> 0]
    /\ geofences = <<>>
    /\ GeofenceId = 0

TempIdle ==
    /\ dpc = "idle"
    /\ temp_unit = "none"
    /\ temp_plan = <<>>
    /\ temp_step = 0
    /\ temp_dirs = {}
    /\ temp_created = {}
    /\ temp_ret = "none"

IdleRun == [pc |-> "idle", day |-> 0, n_clusters |-> 0, daily_results |-> <<>>, written |-> <<>>]

ClusterIdle ==
    /\ device_clusters = <<>>
    /\ cluster_details = <<>>
    /\ cluster_run = IdleRun
    /\ cluster_run_s3 = IdleRun

MoreIdle == ListingIdle /\ GeoIdle /\ TempIdle /\ ClusterIdle

BacklogInit(start_pc, objects) ==
    /\ pc = start_pc
    /\ mode = "none"
    /\ IN_GLUE_ENV = FALSE
    /\ storage = objects
    /\ manifest = NoManifest
    /\ min_batch_size = 10
    /\ max_batch_size = 256
    /\ result = <<>>
    /\ processed_sessions = {}
    /\ session_lists = <<>>
    /\ total_items = 0
    /\ n_lists = 0
    /\ n_items = 0
    /\ seen_refs = {}
    /\ listed = {}
    /\ provisional = <<>>
    /\ backlog_batches = <<>>
    /\ optimized = FALSE
    /\ dispatched = <<>>
    /\ outcomes = <<>>
    /\ batch_results = <<>>
    /\ ret = FALSE
    /\ main_result = -1
    /\ process_result = -1
    /\ exit_status = -1

Init ==
    /\ \E objects \in Storages : BacklogInit("start", objects)
    /\ MoreIdle
    /\ TripIdle
    /\ AggIdle
    /\ LakeIdle
    /\ EventsIdle

PlannerState ==
    [result |-> result, processed_sessions |-> processed_sessions,
     session_lists |-> session_lists]

SetPlannerState(st) ==
    /\ result' = st.result
    /\ processed_sessions' = st.processed_sessions
    /\ session_lists' = st.session_lists

planner_vars == <<result, processed_sessions, session_lists, total_items, n_lists, n_items,
                  seen_refs, listed>>
run_vars == <<storage, manifest, min_batch_size, max_batch_size>>
batch_vars == <<provisional, backlog_batches, optimized, dispatched, outcomes, batch_results,
                ret>>
caller_vars == <<mode, IN_GLUE_ENV, main_result, process_result, exit_status>>

\* process_backlog_amazon_entry.process(): the download, the extraction or the import
\* raises before the wrapped main() is called
EntrySetupRaises(glue) ==
    /\ pc = "start"
    /\ mode' = "entry"
    /\ IN_GLUE_ENV' = glue
    /\ process_result' = 1
    /\ pc' = "process_done"
    /\ UNCHANGED <<main_result, exit_status, planner_vars, run_vars, batch_vars>>

\* run_backlog_processing: boto3.client raises before process_backlog_from_cloud is called
ClientRaises ==
    /\ pc = "start"
    /\ main_result' = 1
    /\ pc' = "main_done"
    /\ UNCHANGED <<mode, IN_GLUE_ENV, process_result, exit_status, planner_vars, run_vars,
                   batch_vars>>

\* process_backlog_from_cloud is called
CallFromCloud ==
    /\ pc = "start"
    /\ pc' = "download"
    /\ UNCHANGED <<caller_vars, planner_vars, run_vars, batch_vars>>

\* process_backlog is called with a list of entry lists
CallProcessBacklog ==
    /\ pc = "start"
    /\ mode' = "direct"
    /\ pc' = "plan"
    /\ UNCHANGED <<IN_GLUE_ENV, main_result, process_result, exit_status, planner_vars,
                   run_vars, batch_vars>>

\* download_backlog_json and the check of its result in process_backlog_from_cloud
DownloadBacklogJson(m, min_size, max_size) ==
    /\ pc = "download"
    /\ manifest' = m
    /\ IF ManifestAccepted(m)
       THEN min_batch_size' = min_size /\ max_batch_size' = max_size
       ELSE UNCHANGED <<min_batch_size, max_batch_size>>
    /\ IF BacklogDataFalsy(m)
       THEN pc' = "returned" /\ ret' = FALSE
       ELSE pc' = "plan" /\ UNCHANGED ret
    /\ UNCHANGED <<storage, provisional, backlog_batches, optimized, dispatched, outcomes,
                   batch_results, caller_vars, planner_vars>>

TakeItem(item) ==
    /\ pc = "plan"
    /\ n_items < MaxItems
    /\ n_items' = n_items + 1
    /\ total_items' = total_items + 1
    /\ seen_refs' = seen_refs \cup {item}
    /\ UNCHANGED <<pc, n_lists, caller_vars, run_vars, batch_vars>>

\* one iteration of the item loop, case 1
PlanDevice(original_item) ==
    LET item == normalize_prefix(original_item)
    IN /\ MatchesDevice(item)
       /\ TakeItem(item)
       /\ SetPlannerState(DeviceCase(PlannerState, item))
       /\ listed' = listed \cup {item}

\* one iteration of the item loop, case 2
PlanSession(original_item) ==
    LET item == normalize_prefix(original_item)
    IN /\ ~MatchesDevice(item)
       /\ MatchesSession(item)
       /\ TakeItem(item)
       /\ SetPlannerState(SessionCase(PlannerState, item))
       /\ listed' = IF SessionCaseLists(PlannerState, item) THEN listed \cup {item} ELSE listed

\* one iteration of the item loop, case 3
PlanFile(original_item) ==
    LET item == normalize_prefix(original_item)
    IN /\ ~MatchesDevice(item)
       /\ ~MatchesSession(item)
       /\ has_valid_extension(item)
       /\ TakeItem(item)
       /\ SetPlannerState(FileCase(PlannerState, item))
       /\ UNCHANGED listed

\* one iteration of the item loop, no case applies
PlanIgnored(original_item) ==
    LET item == normalize_prefix(original_item)
    IN /\ ~MatchesDevice(item)
       /\ ~MatchesSession(item)
       /\ ~has_valid_extension(item)
       /\ TakeItem(item)
       /\ UNCHANGED <<result, processed_sessions, session_lists, listed>>

\* the end of an entry list that is followed by another one (direct callers only:
\* process_backlog_from_cloud passes a single list)
EndList ==
    /\ pc = "plan"
    /\ mode = "direct"
    /\ n_lists + 1 < MaxLists
    /\ SetPlannerState(EndOfEntryList(PlannerState))
    /\ n_lists' = n_lists + 1
    /\ total_items' = 0
    /\ UNCHANGED <<pc, n_items, seen_refs, listed, caller_vars, run_vars, batch_vars>>

\* the end of the last entry list: process_backlog returns result
ReturnResult ==
    /\ pc = "plan"
    /\ mode # "direct" => total_items >= 1
    /\ SetPlannerState(EndOfEntryList(PlannerState))
    /\ n_lists' = n_lists + 1
    /\ provisional' = EndOfEntryList(PlannerState).result
    /\ backlog_batches' = EndOfEntryList(PlannerState).result
    /\ pc' = IF mode = "direct" THEN "direct_done" ELSE "planned"
    /\ UNCHANGED <<total_items, n_items, seen_refs, listed, optimized, dispatched, outcomes,
                   batch_results, ret, caller_vars, run_vars>>

DropPlannerLocals ==
    /\ result' = <<>>
    /\ processed_sessions' = {}
    /\ session_lists' = <<>>
    /\ n_lists' = 0
    /\ n_items' = 0
    /\ seen_refs' = {}
    /\ listed' = {}

\* the optimisation block of process_backlog_from_cloud
Optimize ==
    /\ pc = "planned"
    /\ OptimizationTriggers(backlog_batches, total_items, min_batch_size)
    /\ backlog_batches' = OptimizedBatches(backlog_batches, max_batch_size)
    /\ optimized' = TRUE
    /\ pc' = "dispatch"
    /\ DropPlannerLocals
    /\ UNCHANGED <<total_items, provisional, dispatched, outcomes, batch_results, ret,
                   caller_vars, run_vars>>

\* the optimisation is skipped but the batches are cut at max_batch_size all the same
SkipOptimizeSplits ==
    /\ pc = "planned"
    /\ ~OptimizationTriggers(backlog_batches, total_items, min_batch_size)
    /\ pc' = "dispatch"
    /\ backlog_batches' =
           FinalBatches([i \in 1..Len(backlog_batches) |-> [k |-> i, v |-> backlog_batches[i]]],
                        max_batch_size)
    /\ DropPlannerLocals
    /\ UNCHANGED <<total_items, caller_vars, run_vars, provisional, optimized, dispatched,
                   outcomes, batch_results, ret>>

SkipOptimize ==
    /\ pc = "planned"
    /\ ~OptimizationTriggers(backlog_batches, total_items, min_batch_size)
    /\ pc' = "dispatch"
    /\ DropPlannerLocals
    /\ UNCHANGED <<total_items, caller_vars, run_vars, batch_vars>>

\* the value appended to batch_results for one batch
BatchResult(outcome) == ~mdf_to_parquet_raises(outcome)

\* any(batch_results) in the place of all(batch_results)
AnyTrue(results) == \E i \in 1..Len(results) : results[i]

\* all(batch_results)
AllTrue(results) == \A i \in 1..Len(results) : results[i]

\* one iteration of the loop of process_mdf_batches
ProcessBatch(outcome) ==
    /\ pc = "dispatch"
    /\ Len(batch_results) < Len(backlog_batches)
    /\ dispatched' = Append(dispatched, backlog_batches[Len(batch_results) + 1])
    /\ outcomes' = Append(outcomes, outcome)
    /\ batch_results' = Append(batch_results, BatchResult(outcome))
    /\ UNCHANGED <<pc, provisional, backlog_batches, optimized, ret, caller_vars,
                   planner_vars, run_vars>>

\* the return of process_mdf_batches and of process_backlog_from_cloud
ReturnBatches ==
    /\ pc = "dispatch"
    /\ Len(batch_results) = Len(backlog_batches)
    /\ ret' = AllTrue(batch_results)
    /\ pc' = "returned"
    /\ UNCHANGED <<provisional, backlog_batches, optimized, dispatched, outcomes,
                   batch_results, caller_vars, planner_vars, run_vars>>

\* run_backlog_processing and main(): return 0 if success else 1
MainResult(success) == IF success THEN 0 ELSE 1

\* process_backlog_from_cloud has returned: its locals are gone
MainReturn ==
    /\ pc = "returned"
    /\ main_result' = MainResult(ret)
    /\ pc' = "main_done"
    /\ provisional' = <<>>
    /\ backlog_batches' = <<>>
    /\ optimized' = FALSE
    /\ dispatched' = <<>>
    /\ outcomes' = <<>>
    /\ batch_results' = <<>>
    /\ total_items' = 0
    /\ UNCHANGED <<mode, IN_GLUE_ENV, process_result, exit_status, run_vars, ret, result,
                   processed_sessions, session_lists, n_lists, n_items, seen_refs, listed>>

\* process(): what it returns once the wrapped main() has returned main_res
ProcessResult(main_res, glue, commit_ok) ==
    IF main_res = 0
    THEN IF glue /\ ~commit_ok THEN 1 ELSE 0
    ELSE main_res

\* the wrapped main() returns to process(); job.commit() may raise
ProcessReturn(glue, commit_ok) ==
    /\ pc = "main_done"
    /\ mode' = "entry"
    /\ IN_GLUE_ENV' = glue
    /\ process_result' = ProcessResult(main_result, glue, commit_ok)
    /\ pc' = "process_done"
    /\ UNCHANGED <<main_result, exit_status, planner_vars, run_vars, batch_vars>>

\* the __main__ block of the entry script: sys.exit(result) outside Glue only
EntryExitStatus(res, glue) == IF ~glue THEN res ELSE 0

ExitEntry ==
    /\ pc = "process_done"
    /\ exit_status' = EntryExitStatus(process_result, IN_GLUE_ENV)
    /\ pc' = "exit"
    /\ UNCHANGED <<mode, IN_GLUE_ENV, main_result, process_result, planner_vars, run_vars,
                   batch_vars>>

\* the __main__ block of process_backlog_amazon.py: sys.exit(main())
ExitScript ==
    /\ pc = "main_done"
    /\ mode' = "script"
    /\ exit_status' = main_result
    /\ pc' = "exit"
    /\ UNCHANGED <<IN_GLUE_ENV, main_result, process_result, planner_vars, run_vars,
                   batch_vars>>

Next ==
    \/ \E glue \in BOOLEAN : EntrySetupRaises(glue) /\ UNCHANGED <<trip_vars, agg_vars, lake_vars, event_vars, more_vars>>
    \/ ClientRaises /\ UNCHANGED <<trip_vars, agg_vars, lake_vars, event_vars, more_vars>>
    \/ CallFromCloud /\ UNCHANGED <<trip_vars, agg_vars, lake_vars, event_vars, more_vars>>
    \/ CallProcessBacklog /\ UNCHANGED <<trip_vars, agg_vars, lake_vars, event_vars, more_vars>>
    \/ \E m \in Manifests, min_size \in MinBatchSizes, max_size \in MaxBatchSizes :
          DownloadBacklogJson(m, min_size, max_size) /\ UNCHANGED <<trip_vars, agg_vars, lake_vars, event_vars, more_vars>>
    \/ \E item \in Refs : PlanDevice(item) /\ UNCHANGED <<trip_vars, agg_vars, lake_vars, event_vars, more_vars>>
    \/ \E item \in Refs : PlanSession(item) /\ UNCHANGED <<trip_vars, agg_vars, lake_vars, event_vars, more_vars>>
    \/ \E item \in Refs : PlanFile(item) /\ UNCHANGED <<trip_vars, agg_vars, lake_vars, event_vars, more_vars>>
    \/ \E item \in Refs : PlanIgnored(item) /\ UNCHANGED <<trip_vars, agg_vars, lake_vars, event_vars, more_vars>>
    \/ EndList /\ UNCHANGED <<trip_vars, agg_vars, lake_vars, event_vars, more_vars>>
    \/ ReturnResult /\ UNCHANGED <<trip_vars, agg_vars, lake_vars, event_vars, more_vars>>
    \/ Optimize /\ UNCHANGED <<trip_vars, agg_vars, lake_vars, event_vars, more_vars>>
    \/ SkipOptimize /\ UNCHANGED <<trip_vars, agg_vars, lake_vars, event_vars, more_vars>>
    \/ \E outcome \in MdfOutcomes : ProcessBatch(outcome) /\ UNCHANGED <<trip_vars, agg_vars, lake_vars, event_vars, more_vars>>
    \/ ReturnBatches /\ UNCHANGED <<trip_vars, agg_vars, lake_vars, event_vars, more_vars>>
    \/ MainReturn /\ UNCHANGED <<trip_vars, agg_vars, lake_vars, event_vars, more_vars>>
    \/ \E glue \in BOOLEAN, commit_ok \in BOOLEAN :
          ProcessReturn(glue, commit_ok) /\ UNCHANGED <<trip_vars, agg_vars, lake_vars, event_vars, more_vars>>
    \/ ExitEntry /\ UNCHANGED <<trip_vars, agg_vars, lake_vars, event_vars, more_vars>>
    \/ ExitScript /\ UNCHANGED <<trip_vars, agg_vars, lake_vars, event_vars, more_vars>>

Spec == Init /\ [][Next]_vars

-----------------------------------------------------------------------------
(* Properties of the backlog run *)

AllFiles(batches) == FlattenSeq(batches)

RECURSIVE FilesOfDevice(_, _)
FilesOfDevice(files, device_id) ==
    IF files = <<>> THEN <<>>
    ELSE (IF Head(files)[1] = device_id THEN <<Head(files)>> ELSE <<>>)
         \o FilesOfDevice(Tail(files), device_id)

DevicesOf(batches) == {f[1] : f \in Range(AllFiles(batches))}

SessionPrefixOf(file) == <<file[1], file[2], "">>

Planned == pc \in {"planned", "direct_done"}

C3_Original ==
    optimized =>
        \A i \in 1..Len(backlog_batches) :
            min_batch_size <= Len(backlog_batches[i]) /\ Len(backlog_batches[i]) <= max_batch_size

\* C3 amended: when the optimisation ran, every batch has at least one and at most
\* max_batch_size files.
C3_BatchSizeBounds ==
    optimized =>
        \A i \in 1..Len(backlog_batches) :
            1 <= Len(backlog_batches[i]) /\ Len(backlog_batches[i]) <= max_batch_size

\* C3 witness: the optimisation ran and left a batch below min_batch_size.
C3_Witness ==
    /\ optimized
    /\ \E i \in 1..Len(backlog_batches) : Len(backlog_batches[i]) < min_batch_size
    /\ \E i \in 1..Len(backlog_batches) : Len(backlog_batches[i]) = max_batch_size

\* C4: every file reference of the input is in exactly one batch, once, and that batch
\* holds only files of the reference's session.
C4_FileRefsPlanned ==
    Planned =>
        \A f \in seen_refs :
            (has_valid_extension(f) /\ Len(f) >= 3) =>
                /\ Cardinality({i \in 1..Len(provisional) : f \in Range(provisional[i])}) = 1
                /\ Cardinality({i \in 1..Len(AllFiles(provisional)) :
                                   AllFiles(provisional)[i] = f}) = 1
                /\ \A i \in 1..Len(provisional) :
                      f \in Range(provisional[i]) =>
                          \A g \in Range(provisional[i]) : SessionPrefixOf(g) = SessionPrefixOf(f)

\* C5: for every session reference of the input, every valid-extension file the storage
\* lists under the session is in some batch.
C5_SessionRefsCovered ==
    Planned =>
        \A s \in seen_refs :
            MatchesSession(s) =>
                \A f \in storage :
                    (StartsWith(f, s) /\ has_valid_extension(f)) =>
                        f \in Range(AllFiles(provisional))

StructurallyValid(m) ==
    m.is_dict /\ m.has_files /\ m.has_config /\ m.has_batch_size /\ m.has_min /\ m.has_max

AbortedBeforePlanning == pc = "returned" /\ total_items = 0

\* C6: process_backlog_from_cloud aborts before planning (nothing listed, nothing
\* dispatched, False returned) exactly when the manifest is structurally invalid.
C6_AbortIffInvalid ==
    mode # "direct" =>
        /\ AbortedBeforePlanning =>
              ~StructurallyValid(manifest) /\ listed = {} /\ dispatched = <<>> /\ ~ret
        /\ pc \in {"plan", "planned", "dispatch"} => StructurallyValid(manifest)

C8_ExitStatusIffSuccess == pc = "exit" => (exit_status = 0 <=> ret)

\* What holds of the exit path: outside Glue the exit status is 0 exactly when
\* process_backlog_from_cloud reported success; in Glue the script ends with status 0;
\* process() returns 1 when the setup raised, a non-zero result of main() unchanged, and
\* 0 after a main() result of 0 unless job.commit() raised in Glue.
ExitPath ==
    /\ (pc = "exit" /\ ~IN_GLUE_ENV) => (exit_status = 0 <=> ret)
    /\ (pc = "exit" /\ IN_GLUE_ENV) => exit_status = 0
    /\ (pc \in {"process_done", "exit"} /\ mode = "entry") =>
          /\ main_result = -1 => process_result = 1
          /\ main_result > 0 => process_result = main_result
          /\ main_result = 0 => (process_result = 0 \/ (process_result = 1 /\ IN_GLUE_ENV))
    /\ pc \in {"main_done", "process_done", "exit"} => (main_result = 0 <=> ret)

-----------------------------------------------------------------------------
(* The trip segmenter.  Timestamps and thresholds are whole minutes.  A call  *)
(* of AggregateData.get_trip_windows is followed by a call of                 *)
(* AggregateDataLake.get_trip_windows on the same time column.                *)

MaxLen == 3
MaxT == 3
TripGaps == {0, 1, 2}
TripMinLengths == {0, 1, 2}

\* timestamps [0,1,2,3,20,21,22] minutes with g = 10, m = 1
Example ==
    [timestamps |-> <<0, 1, 2, 3, 20, 21, 22>>, trip_gap_min |-> 10, trip_min_length_min |-> 1]

TimeColumns == UNION {[1..n -> 0..MaxT] : n \in 0..MaxLen}

\* .iloc[k]: positions count from 0, a negative k counts from the end
Iloc(column, k) == IF k >= 0 THEN column[k + 1] ELSE column[Len(column) + k + 1]

\* df.sort_values('TimeStamp'), kind='quicksort': the row orders with ascending keys;
\* the order of rows with equal keys is the sort's
sort_values(column) ==
    {order \in [1..Len(column) -> 1..Len(column)] :
        /\ \A i, j \in 1..Len(column) : order[i] = order[j] => i = j
        /\ \A i \in 1..(Len(column) - 1) : column[order[i]] <= column[order[i + 1]]}

\* df.index of the sorted frame: the labels 0..n-1 the rows had in the file
SortedIndex(order) == [i \in 1..Len(order) |-> order[i] - 1]

\* df['TimeStamp'] of the sorted frame
SortedTimeStamp(column, order) == [i \in 1..Len(order) |-> column[order[i]]]

\* df[df['TimeDiff'] > self.trip_gap_min].index.tolist()
RECURSIVE trip_breaks(_, _, _, _)
trip_breaks(TimeStamp, labels, gap, i) ==
    IF i > Len(TimeStamp) THEN <<>>
    ELSE (IF TimeStamp[i] - TimeStamp[i - 1] > gap THEN <<labels[i]>> ELSE <<>>)
         \o trip_breaks(TimeStamp, labels, gap, i + 1)

\* if trip_length >= self.trip_min_length_min: trip_windows.append((start_time, end_time))
TripWindow(TimeStamp, start_idx, end_idx, min_length) ==
    LET start_time == Iloc(TimeStamp, start_idx)
        end_time == Iloc(TimeStamp, end_idx)
    IN IF end_time - start_time >= min_length THEN << <<start_time, end_time>> >> ELSE <<>>

\* for break_idx in trip_breaks: ... and the last trip
RECURSIVE MultipleTrips(_, _, _, _)
MultipleTrips(TimeStamp, breaks, start_idx, min_length) ==
    IF breaks = <<>>
    THEN IF start_idx < Len(TimeStamp)
         THEN TripWindow(TimeStamp, start_idx, -1, min_length)
         ELSE <<>>
    ELSE TripWindow(TimeStamp, start_idx, Head(breaks) - 1, min_length)
         \o MultipleTrips(TimeStamp, Tail(breaks), Head(breaks), min_length)

\* AggregateData.get_trip_windows on the frame sorted in the given row order
get_trip_windows(column, order, gap, min_length) ==
    IF Len(column) = 0 THEN <<>>
    ELSE LET TimeStamp == SortedTimeStamp(column, order)
             breaks == trip_breaks(TimeStamp, SortedIndex(order), gap, 2)
         IN IF Len(breaks) = 0
            THEN TripWindow(TimeStamp, 0, -1, min_length)
            ELSE MultipleTrips(TimeStamp, breaks, 0, min_length)
Max(S) == CHOOSE x \in S : \A y \in S : y <= x
Min(S) == CHOOSE x \in S : \A y \in S : x <= y

\* df[df["time_diff"] > pd.Timedelta(minutes=self.trip_gap_min)]["t"].tolist()
RECURSIVE TripStartsFrom(_, _, _)
TripStartsFrom(t, gap, i) ==
    IF i > Len(t) THEN <<>>
    ELSE (IF t[i] - t[i - 1] > gap THEN <<t[i]>> ELSE <<>>) \o TripStartsFrom(t, gap, i + 1)

\* trip_starts, with df["t"].iloc[0] inserted when it is not in the list
trip_starts(t, gap) ==
    LET starts == TripStartsFrom(t, gap, 2)
    IN IF Iloc(t, 0) \notin Range(starts) THEN <<Iloc(t, 0)>> \o starts ELSE starts

\* df[df["t"] < trip_starts[i + 1]]: the positions of the rows kept
RowsBefore(t, next_start) == {j \in 1..Len(t) : t[j] < next_start}

\* trip_ends: the last row before the next trip start, df["t"].iloc[-1] for the last trip
trip_ends(t, starts) ==
    [i \in 1..Len(starts) |->
        IF i < Len(starts) THEN t[Max(RowsBefore(t, starts[i + 1]))] ELSE Iloc(t, -1)]

\* .iloc[0] of an empty frame and .iloc[-1] of an empty selection raise IndexError
get_trip_windows_s3_raises(t, gap) ==
    IF Len(t) = 0 THEN TRUE
    ELSE LET starts == trip_starts(t, gap)
         IN \E i \in 1..(Len(starts) - 1) : RowsBefore(t, starts[i + 1]) = {}

\* AggregateDataLake.get_trip_windows on the concatenated frame
get_trip_windows_s3(t, gap, min_length) ==
    LET starts == trip_starts(t, gap)
        ends == trip_ends(t, starts)
        LongEnough(window) == window[2] - window[1] >= min_length
    IN SelectSeq([i \in 1..Len(starts) |-> <<starts[i], ends[i]>>], LongEnough)

InitTrip ==
    /\ BacklogInit("idle", {})
    /\ MoreIdle
    /\ tpc = "start"
    /\ \/ /\ has_time_column = TRUE
          /\ timestamps \in TimeColumns
          /\ trip_gap_min \in TripGaps
          /\ trip_min_length_min \in TripMinLengths
       \/ /\ has_time_column = FALSE
          /\ timestamps = <<>>
          /\ trip_gap_min \in TripGaps
          /\ trip_min_length_min \in TripMinLengths
       \/ /\ has_time_column = TRUE
          /\ timestamps = Example.timestamps
          /\ trip_gap_min = Example.trip_gap_min
          /\ trip_min_length_min = Example.trip_min_length_min
    /\ df_index = <<>>
    /\ trip_windows = <<>>
    /\ trip_windows_s3 = <<>>
    /\ AggIdle
    /\ LakeIdle
    /\ EventsIdle

trip_inputs == <<has_time_column, timestamps, trip_gap_min, trip_min_length_min>>

\* AggregateData.get_trip_windows
GetTripWindows ==
    /\ tpc = "start"
    /\ IF has_time_column
       THEN \E order \in sort_values(timestamps) :
               /\ df_index' = SortedIndex(order)
               /\ trip_windows' =
                     get_trip_windows(timestamps, order, trip_gap_min, trip_min_length_min)
       ELSE \* if 'TimeStamp' not in df.columns: return []
            /\ df_index' = <<>>
            /\ trip_windows' = <<>>
    /\ tpc' = "segmented"
    /\ UNCHANGED <<trip_inputs, trip_windows_s3>>

\* AggregateDataLake.get_trip_windows returns its windows
GetTripWindowsS3 ==
    /\ tpc = "segmented"
    /\ has_time_column
    /\ ~get_trip_windows_s3_raises(timestamps, trip_gap_min)
    /\ trip_windows_s3' = get_trip_windows_s3(timestamps, trip_gap_min, trip_min_length_min)
    /\ tpc' = "done"
    /\ UNCHANGED <<trip_inputs, df_index, trip_windows>>

\* AggregateDataLake.get_trip_windows raises: df["t"] of a frame without the column
\* (KeyError), or an IndexError of .iloc
GetTripWindowsS3Raises ==
    /\ tpc = "segmented"
    /\ (~has_time_column \/ get_trip_windows_s3_raises(timestamps, trip_gap_min))
    /\ tpc' = "raised"
    /\ UNCHANGED <<trip_inputs, df_index, trip_windows, trip_windows_s3>>

NextTrip ==
    \/ GetTripWindows /\ UNCHANGED <<backlog_vars, agg_vars, lake_vars, event_vars, more_vars>>
    \/ GetTripWindowsS3 /\ UNCHANGED <<backlog_vars, agg_vars, lake_vars, event_vars, more_vars>>
    \/ GetTripWindowsS3Raises /\ UNCHANGED <<backlog_vars, agg_vars, lake_vars, event_vars, more_vars>>

SpecTrip == InitTrip /\ [][NextTrip]_vars

-----------------------------------------------------------------------------
(* Properties of the trip segmenter *)

Ascending(t) == \A i \in 1..(Len(t) - 1) : t[i] <= t[i + 1]

Segmented == tpc \in {"segmented", "done", "raised"}

WindowsOrdered(windows, min_length) ==
    /\ \A i \in 1..Len(windows) :
          /\ windows[i][2] >= windows[i][1]
          /\ windows[i][2] - windows[i][1] >= min_length
    /\ \A i \in 1..(Len(windows) - 1) :
          /\ windows[i][1] < windows[i + 1][1]
          /\ windows[i][2] < windows[i + 1][1]

\* C9: for an ascending time column the windows of get_trip_windows (both variants) are
\* strictly ordered by start, each ends before the next one starts, end >= start, and
\* each lasts at least trip_min_length_min.
C9_WindowsOrdered ==
    Ascending(timestamps) =>
        /\ WindowsOrdered(trip_windows, trip_min_length_min)
        /\ WindowsOrdered(trip_windows_s3, trip_min_length_min)

IsTripStart(t, gap, i) == i = 1 \/ t[i] - t[i - 1] > gap

ExpectedEnd(t, gap, i) ==
    LET later == {j \in (i + 1)..Len(t) : IsTripStart(t, gap, j)}
    IN IF later = {} THEN t[Len(t)]
       ELSE t[Max({k \in 1..Len(t) : t[k] < t[Min(later)]})]

RECURSIVE ExpectedWindows(_, _, _, _)
ExpectedWindows(t, gap, min_length, i) ==
    IF i > Len(t) THEN <<>>
    ELSE (IF IsTripStart(t, gap, i) /\ ExpectedEnd(t, gap, i) - t[i] >= min_length
          THEN << <<t[i], ExpectedEnd(t, gap, i)>> >>
          ELSE <<>>)
         \o ExpectedWindows(t, gap, min_length, i + 1)

\* C10: for an ascending time column a trip starts at the first timestamp and at every
\* timestamp more than trip_gap_min after its predecessor, ends at the last timestamp
\* before the next trip start (the last trip at the final timestamp), and the trips of
\* at least trip_min_length_min are the windows returned, by both variants.
C10_TripBoundaries ==
    (Segmented /\ Ascending(timestamps)) =>
        /\ trip_windows = ExpectedWindows(timestamps, trip_gap_min, trip_min_length_min, 1)
        /\ tpc = "done" =>
              trip_windows_s3 =
                  ExpectedWindows(timestamps, trip_gap_min, trip_min_length_min, 1)

\* C11: for a trip table with no rows or without its time column get_trip_windows (both
\* variants) returns an empty list and does not raise to its caller.
C11_EmptyTableNoRaise ==
    ((timestamps = <<>> \/ ~has_time_column) /\ tpc # "start") =>
        /\ trip_windows = <<>>
        /\ tpc \in {"segmented", "done"}
        /\ trip_windows_s3 = <<>>

\* the rows of the sorted frame kept their file order
RowsInFileOrder == \A i \in 1..Len(df_index) : df_index[i] = i - 1

\* What holds of the segmenter: when the sort leaves the rows in file order the windows
\* of both variants are ordered and are the expected trips, and the example
\* [0,1,2,3,20,21,22] with g = 10, m = 1 gives [(0,3),(20,22)].
SegmenterInFileOrder ==
    /\ RowsInFileOrder => (C9_WindowsOrdered /\ C10_TripBoundaries)
    /\ (tpc = "done" /\ timestamps = Example.timestamps
           /\ trip_gap_min = Example.trip_gap_min
           /\ trip_min_length_min = Example.trip_min_length_min) =>
          /\ trip_windows = << <<0, 3>>, <<20, 22>> >>
          /\ trip_windows_s3 = << <<0, 3>>, <<20, 22>> >>

\* ---------------------------------------------------------------------------------------
\* Signal aggregator: process_aggregation_for_trip and the trip-window loop of
\* process_single_device, in modules/aggregation.py (AggregateData) and in the
\* aggregate-data-from-s3 script (AggregateDataLake, suffix _s3).
\*
\* The message table has the time column and one signal column X; a cell of X is the set
\* {} for a null and {v} for the value v. Times are whole seconds. A numeric result is the
\* fraction num/den, so that a mean is exact; 0/0 is NaN.
\* ---------------------------------------------------------------------------------------
MaxRows == 3

Times == {0, 5, 10}

Cells == {{}, {1}, {3}}

TableColumns == {"X"}

DEVICE_ID == "2F6913DB"

NaN == [num |-> 0, den |-> 0]

Num(v) == [num |-> v, den |-> 1]

RECURSIVE SumSeq(_)
SumSeq(vs) == IF vs = <<>> THEN 0 ELSE Head(vs) + SumSeq(Tail(vs))

\* df[(df["t"] >= trip_window[0]) & (df["t"] <= trip_window[1])]
FilterWindow(df, trip_window) ==
    SelectSeq(df, LAMBDA row : row.t >= trip_window[1] /\ row.t <= trip_window[2])

\* the non-null values of the signal column, in row order
RECURSIVE dropna(_)
dropna(df) ==
    IF df = <<>> THEN <<>>
    ELSE (IF Head(df).X = {} THEN <<>> ELSE <<CHOOSE v \in Head(df).X : TRUE>>)
             \o dropna(Tail(df))

\* Series.count(): the non-null values
count(df) == Len(dropna(df))

\* Series.mean(), .max(), .min() skip nulls and are NaN when nothing is left; .sum() is 0
mean(df) == IF count(df) = 0 THEN NaN ELSE [num |-> SumSeq(dropna(df)), den |-> count(df)]

max(df) == IF count(df) = 0 THEN NaN ELSE Num(Max(Range(dropna(df))))

min(df) == IF count(df) = 0 THEN NaN ELSE Num(Min(Range(dropna(df))))

sum(df) == Num(SumSeq(dropna(df)))

\* Series.iloc[i] of a non-empty frame
iloc(df, i) == IF df[i].X = {} THEN NaN ELSE Num(CHOOSE v \in df[i].X : TRUE)

\* (df["t"].max() - df["t"].min()).total_seconds()
duration(df) ==
    Max({df[i].t : i \in 1..Len(df)}) - Min({df[i].t : i \in 1..Len(df)})

\* AggregateDataLake: the aggregation types whose branch assigns result_value
S3Types ==
    {"avg", "median", "max", "min", "sum", "first", "last", "delta_sum", "delta_sum_pos",
     "delta_sum_neg"}

\* result_value of the branches the model draws (median and the delta sums are never drawn)
result_value(df, aggregation_type) ==
    CASE aggregation_type = "avg" -> mean(df)
      [] aggregation_type = "max" -> max(df)
      [] aggregation_type = "min" -> min(df)
      [] aggregation_type = "sum" -> sum(df)
      [] aggregation_type = "first" -> iloc(df, 1)
      [] aggregation_type = "last" -> iloc(df, Len(df))

\* AggregateDataLake: the inner loop over aggregation_types for one signal of the table
RECURSIVE SignalResultsS3(_, _, _, _)
SignalResultsS3(df, signal, types, trip_window) ==
    IF types = <<>> THEN <<>>
    ELSE (IF Head(types) \in S3Types
          THEN << [device_id |-> DEVICE_ID,
                   signal |-> signal,
                   aggregation_type |-> Head(types),
                   result_value |-> result_value(df, Head(types)),
                   count |-> count(df),
                   duration |-> duration(df),
                   trip_start |-> trip_window[1],
                   trip_end |-> trip_window[2],
                   trip_id |-> <<DEVICE_ID, trip_window[1]>>] >>
          ELSE <<>>)
         \o SignalResultsS3(df, signal, Tail(types), trip_window)

\* the loop over the signals without the skip of a signal the table lacks
RECURSIVE ResultsS3NoSkip(_, _, _, _)
ResultsS3NoSkip(df, sigs, types, trip_window) ==
    IF sigs = <<>> THEN <<>>
    ELSE SignalResultsS3(df, Head(sigs), types, trip_window)
             \o ResultsS3NoSkip(df, Tail(sigs), types, trip_window)

RECURSIVE ResultsS3(_, _, _, _)
ResultsS3(df, sigs, types, trip_window) ==
    IF sigs = <<>> THEN <<>>
    ELSE (IF Head(sigs) \notin TableColumns THEN <<>>
          ELSE SignalResultsS3(df, Head(sigs), types, trip_window))
         \o ResultsS3(df, Tail(sigs), types, trip_window)

process_aggregation_for_trip_s3(df, sigs, types, trip_window) ==
    IF FilterWindow(df, trip_window) = <<>> THEN <<>>
    ELSE ResultsS3(FilterWindow(df, trip_window), sigs, types, trip_window)

\* AggregateData: the aggregation types with a branch
Types == {"avg", "min", "max", "count"}

value(trip_df, agg_type) ==
    CASE agg_type = "avg" -> mean(trip_df)
      [] agg_type = "min" -> min(trip_df)
      [] agg_type = "max" -> max(trip_df)
      [] agg_type = "count" -> Num(Len(trip_df))

\* AggregateData: the inner loop over aggregation_types for one signal of the table
RECURSIVE SignalResults(_, _, _, _)
SignalResults(trip_df, signal, types, trip_window) ==
    IF types = <<>> THEN <<>>
    ELSE (IF Head(types) \in Types
          THEN << [device_id |-> DEVICE_ID,
                   signal |-> signal,
                   aggregation |-> Head(types),
                   value |-> value(trip_df, Head(types)),
                   start_time |-> trip_window[1],
                   end_time |-> trip_window[2]] >>
          ELSE <<>>)
         \o SignalResults(trip_df, signal, Tail(types), trip_window)

RECURSIVE Results(_, _, _, _)
Results(trip_df, sigs, types, trip_window) ==
    IF sigs = <<>> THEN <<>>
    ELSE (IF Head(sigs) \notin TableColumns THEN <<>>
          ELSE SignalResults(trip_df, Head(sigs), types, trip_window))
         \o Results(trip_df, Tail(sigs), types, trip_window)

process_aggregation_for_trip(df, sigs, types, trip_window) ==
    IF Len(FilterWindow(df, trip_window)) = 0 THEN <<>>
    ELSE Results(FilterWindow(df, trip_window), sigs, types, trip_window)

\* ---- inputs ----
Rows == [t : Times, X : Cells]

MessageTables ==
    UNION {{df \in [1..n -> Rows] : \A i \in 1..(n - 1) : df[i].t <= df[i + 1].t}
           : n \in 0..MaxRows}

ExampleTable == <<[t |-> 0, X |-> {1}], [t |-> 5, X |-> {2}], [t |-> 10, X |-> {3}]>>

SignalLists == {<<"X">>, <<"Z", "X">>, <<"Z">>}

AggregationTypeLists ==
    {<<"avg", "count">>, <<"min", "max", "sum">>, <<"first", "last">>, <<"count">>}

WindowLists ==
    {<< <<0, 10>> >>, << <<0, 0>>, <<5, 10>> >>, << <<6, 9>>, <<0, 10>> >>, << <<5, 5>> >>}

InitAgg ==
    /\ BacklogInit("idle", {})
    /\ MoreIdle
    /\ TripIdle
    /\ LakeIdle
    /\ EventsIdle
    /\ apc = "start"
    /\ \/ table \in MessageTables
       \/ table = ExampleTable
    /\ signals \in SignalLists
    /\ aggregation_types \in AggregationTypeLists
    /\ agg_windows \in WindowLists
    /\ n_windows = 0
    /\ device_results = <<>>
    /\ device_results_s3 = <<>>

agg_inputs == <<table, signals, aggregation_types, agg_windows>>

\* process_single_device, both variants: one pass of the loop over the trip windows
ProcessAggregationForTrip ==
    /\ apc = "start"
    /\ n_windows < Len(agg_windows)
    /\ n_windows' = n_windows + 1
    /\ device_results' = device_results \o
           process_aggregation_for_trip(table, signals, aggregation_types,
                                        agg_windows[n_windows + 1])
    /\ device_results_s3' = device_results_s3 \o
           process_aggregation_for_trip_s3(table, signals, aggregation_types,
                                           agg_windows[n_windows + 1])
    /\ UNCHANGED <<apc, agg_inputs>>

\* process_single_device, both variants: return device_results
ReturnDeviceResults ==
    /\ apc = "start"
    /\ n_windows = Len(agg_windows)
    /\ apc' = "done"
    /\ UNCHANGED <<agg_inputs, n_windows, device_results, device_results_s3>>

NextAgg ==
    \/ ProcessAggregationForTrip /\ UNCHANGED <<backlog_vars, trip_vars, lake_vars, event_vars, more_vars>>
    \/ ReturnDeviceResults /\ UNCHANGED <<backlog_vars, trip_vars, lake_vars, event_vars, more_vars>>

SpecAgg == InitAgg /\ [][NextAgg]_vars

\* ---------------------------------------------------------------------------------------
\* Data lake run: process_data_lake over the dates of the range and the devices of the
\* manifest, in modules/aggregation.py (AggregateData, with _extract_config_parameters)
\* and in the aggregate-data-from-s3 script (AggregateDataLake, suffix _s3), which takes
\* start_date and end_date as constructor arguments.
\*
\* Dates are day numbers. A date string of the manifest is [ok, day]: ok says whether
\* strptime(.., '%Y-%m-%d') accepts it, day is the date it denotes. A key of the date
\* configuration holds a set: {} when the key is absent, {v} when it has the value v.
\* What process_single_device meets for one day and device is one of
\*   records  it returns records
\*   empty    no files, no trip windows or no rows: it returns nothing
\*   raises   an exception before any record of the unit exists
\*   partial  an exception while reading a later file, after records of an earlier file
\* ---------------------------------------------------------------------------------------
MaxDays == 2

StartDates == {2}

Today == Max(StartDates) + 1

EndDates == UNION {(st - 2)..(st + MaxDays - 1) : st \in StartDates}

DateString(d) == [ok |-> TRUE, day |-> d]

BadDateString == [ok |-> FALSE, day |-> 0]

DateConfigs ==
    {[date |-> FALSE, mode |-> {}, start_date |-> {}, end_date |-> {}],
     [date |-> TRUE, mode |-> {}, start_date |-> {}, end_date |-> {}],
     [date |-> TRUE, mode |-> {"previous_day"}, start_date |-> {}, end_date |-> {}],
     [date |-> TRUE, mode |-> {"last_week"}, start_date |-> {}, end_date |-> {}],
     [date |-> TRUE, mode |-> {"specific_period"}, start_date |-> {}, end_date |-> {}]}
    \cup {[date |-> TRUE, mode |-> {"specific_period"}, start_date |-> {DateString(st)},
           end_date |-> {BadDateString}] : st \in StartDates}
    \cup {[date |-> TRUE, mode |-> {"specific_period"}, start_date |-> {DateString(st)},
           end_date |-> {DateString(en)}] : st \in StartDates, en \in EndDates}

DeviceLists == {<<"2F6913DB">>, <<"2F6913DB", "3BA199E2">>}

UnitOutcomes == {"records", "empty", "raises", "partial"}

\* _extract_config_parameters raises ValueError
extract_config_parameters_raises(dc) ==
    \/ ~dc.date
    \/ dc.mode = {}
    \/ /\ dc.mode = {"specific_period"}
       /\ \/ dc.start_date = {}
          \/ dc.end_date = {}
          \/ \E d \in dc.start_date \cup dc.end_date : ~d.ok
    \/ dc.mode \cap {"previous_day", "specific_period"} = {}

\* the dates _extract_config_parameters leaves in self.start_date and self.end_date
ConfigStartDate(dc) ==
    IF dc.mode = {"previous_day"} THEN Today - 1
    ELSE (CHOOSE d \in dc.start_date : TRUE).day

ConfigEndDate(dc) ==
    IF dc.mode = {"previous_day"} THEN Today - 1
    ELSE (CHOOSE d \in dc.end_date : TRUE).day

\* the dates the script gives the constructor of AggregateDataLake
StartDateS3(dc) == IF extract_config_parameters_raises(dc) THEN Today - 1 ELSE ConfigStartDate(dc)

EndDateS3(dc) == IF extract_config_parameters_raises(dc) THEN Today - 1 ELSE ConfigEndDate(dc)

total_days(st, en) == (en - st) + 1

\* daterange: range(int((end_date - start_date).days) + 1)
daterange(st, en) == [n \in 1..total_days(st, en) |-> st + (n - 1)]

\* the records one unit returns, by what it meets
UnitRecords(device_id, date) == <<[device_id |-> device_id, date |-> date]>>

\* AggregateData.process_single_device: every exception is caught; the one of a single
\* file is caught inside the loop over the files and the records so far are returned
process_single_device(outcome, device_id, date) ==
    IF outcome \in {"records", "partial"} THEN UnitRecords(device_id, date) ELSE <<>>

\* AggregateDataLake.process_single_device: no exception is caught
process_single_device_s3_raises(outcome) == outcome \in {"raises", "partial"}

process_single_device_s3(outcome, device_id, date) ==
    IF outcome = "records" THEN UnitRecords(device_id, date) ELSE <<>>

\* the loop over the clusters and their devices for one date
RECURSIVE DailyResults(_, _, _)
DailyResults(outcomes_of_day, devs, date) ==
    IF devs = <<>> THEN <<>>
    ELSE process_single_device(Head(outcomes_of_day), Head(devs), date)
             \o DailyResults(Tail(outcomes_of_day), Tail(devs), date)

RECURSIVE DailyResultsS3(_, _, _)
DailyResultsS3(outcomes_of_day, devs, date) ==
    IF devs = <<>> THEN <<>>
    ELSE process_single_device_s3(Head(outcomes_of_day), Head(devs), date)
             \o DailyResultsS3(Tail(outcomes_of_day), Tail(devs), date)

InitLake ==
    /\ BacklogInit("idle", {})
    /\ MoreIdle
    /\ TripIdle
    /\ AggIdle
    /\ EventsIdle
    /\ lpc = "start"
    /\ lpc_s3 = "start"
    /\ date_config \in DateConfigs
    /\ devices \in DeviceLists
    /\ unit \in [1..Len(daterange(StartDateS3(date_config), EndDateS3(date_config)))
                    -> [1..Len(devices) -> UnitOutcomes]]
    /\ start_date = Today - 1
    /\ end_date = Today - 1
    /\ n_days = 0
    /\ n_days_s3 = 0
    /\ days_processed = 0
    /\ days_processed_s3 = 0
    /\ written = <<>>
    /\ written_s3 = <<>>

lake_inputs == <<date_config, devices, unit>>

lake_run == <<lpc, start_date, end_date, n_days, days_processed, written>>

lake_run_s3 == <<lpc_s3, n_days_s3, days_processed_s3, written_s3>>

\* load_aggregation_json: _extract_config_parameters sets the dates of the run
ExtractConfigParameters ==
    /\ lpc = "start"
    /\ ~extract_config_parameters_raises(date_config)
    /\ lpc' = "days"
    /\ start_date' = ConfigStartDate(date_config)
    /\ end_date' = ConfigEndDate(date_config)
    /\ UNCHANGED <<lake_inputs, n_days, days_processed, written, lake_run_s3>>

\* load_aggregation_json: the ValueError of _extract_config_parameters leaves
\* process_data_lake and ends the run of the caller
ExtractConfigParametersRaises ==
    /\ lpc = "start"
    /\ extract_config_parameters_raises(date_config)
    /\ lpc' = "raised"
    /\ UNCHANGED <<lake_inputs, start_date, end_date, n_days, days_processed, written,
                   lake_run_s3>>

\* AggregateData.process_data_lake: one pass of the loop over the dates
ProcessDate ==
    /\ lpc = "days"
    /\ n_days < Len(daterange(start_date, end_date))
    /\ LET single_date == daterange(start_date, end_date)[n_days + 1]
           daily_results == DailyResults([i \in 1..Len(devices) |-> unit[n_days + 1][i]],
                                         devices, single_date)
       IN  /\ days_processed' = IF daily_results # <<>> THEN days_processed + 1
                                ELSE days_processed
           /\ written' = IF daily_results # <<>>
                         THEN Append(written, [date |-> single_date, results |-> daily_results])
                         ELSE written
    /\ n_days' = n_days + 1
    /\ UNCHANGED <<lake_inputs, lpc, start_date, end_date, lake_run_s3>>

\* AggregateData.process_data_lake: return days_processed
ReturnDaysProcessed ==
    /\ lpc = "days"
    /\ n_days = Len(daterange(start_date, end_date))
    /\ lpc' = "done"
    /\ UNCHANGED <<lake_inputs, start_date, end_date, n_days, days_processed, written,
                   lake_run_s3>>

\* AggregateDataLake.process_data_lake: one pass of the loop over the dates
ProcessDateS3 ==
    /\ lpc_s3 = "start"
    /\ n_days_s3 < Len(daterange(StartDateS3(date_config), EndDateS3(date_config)))
    /\ \A i \in 1..Len(devices) : ~process_single_device_s3_raises(unit[n_days_s3 + 1][i])
    /\ LET single_date ==
               daterange(StartDateS3(date_config), EndDateS3(date_config))[n_days_s3 + 1]
           daily_results == DailyResultsS3([i \in 1..Len(devices) |-> unit[n_days_s3 + 1][i]],
                                           devices, single_date)
       IN  /\ days_processed_s3' = IF daily_results # <<>> THEN days_processed_s3 + 1
                                   ELSE days_processed_s3
           /\ written_s3' = IF daily_results # <<>>
                            THEN Append(written_s3,
                                        [date |-> single_date, results |-> daily_results])
                            ELSE written_s3
    /\ n_days_s3' = n_days_s3 + 1
    /\ UNCHANGED <<lake_inputs, lpc_s3, lake_run>>

\* AggregateDataLake.process_data_lake: the exception of a unit leaves the loop over the
\* dates; the date's results so far are not written and the script ends
ProcessDateS3Raises ==
    /\ lpc_s3 = "start"
    /\ n_days_s3 < Len(daterange(StartDateS3(date_config), EndDateS3(date_config)))
    /\ \E i \in 1..Len(devices) : process_single_device_s3_raises(unit[n_days_s3 + 1][i])
    /\ lpc_s3' = "raised"
    /\ UNCHANGED <<lake_inputs, n_days_s3, days_processed_s3, written_s3, lake_run>>

\* AggregateDataLake.process_data_lake: the loop over the dates is over
ReturnS3 ==
    /\ lpc_s3 = "start"
    /\ n_days_s3 = Len(daterange(StartDateS3(date_config), EndDateS3(date_config)))
    /\ lpc_s3' = "done"
    /\ UNCHANGED <<lake_inputs, n_days_s3, days_processed_s3, written_s3, lake_run>>

NextLake ==
    \/ ExtractConfigParameters /\ UNCHANGED <<backlog_vars, trip_vars, agg_vars, event_vars, more_vars>>
    \/ ExtractConfigParametersRaises /\ UNCHANGED <<backlog_vars, trip_vars, agg_vars, event_vars, more_vars>>
    \/ ProcessDate /\ UNCHANGED <<backlog_vars, trip_vars, agg_vars, event_vars, more_vars>>
    \/ ReturnDaysProcessed /\ UNCHANGED <<backlog_vars, trip_vars, agg_vars, event_vars, more_vars>>
    \/ ProcessDateS3 /\ UNCHANGED <<backlog_vars, trip_vars, agg_vars, event_vars, more_vars>>
    \/ ProcessDateS3Raises /\ UNCHANGED <<backlog_vars, trip_vars, agg_vars, event_vars, more_vars>>
    \/ ReturnS3 /\ UNCHANGED <<backlog_vars, trip_vars, agg_vars, event_vars, more_vars>>

SpecLake == InitLake /\ [][NextLake]_vars

\* ---------------------------------------------------------------------------------------
\* Event detector: DetectEvents.process_events with create_df_signal_event and
\* publish_message, in modules/utils.py.
\*
\* A decoded file is the column of the trigger signal, a sequence of values in time order;
\* the time of a sample is its position, so the timestamps are distinct and ascending. An
\* event of events.json has one trigger signal, and every event reads the same files.
\* ---------------------------------------------------------------------------------------
MaxSamples == 4

MaxEvents == 2

SignalValues == {0, 2, 5}

Thresholds == {[lower_threshold |-> 1, upper_threshold |-> 4],
               [lower_threshold |-> 0, upper_threshold |-> 5]}

Events ==
    {[lower_threshold |-> th.lower_threshold, upper_threshold |-> th.upper_threshold,
      exact_match |-> em, rising_as_start |-> ras]
         : th \in Thresholds, em \in BOOLEAN, ras \in BOOLEAN}

Series == UNION {[1..n -> SignalValues] : n \in 0..MaxSamples}

ExampleSeries == <<0, 5, 0>>

ExampleEvent ==
    [lower_threshold |-> 1, upper_threshold |-> 4, exact_match |-> FALSE,
     rising_as_start |-> TRUE]

below_lower(event, df, i) ==
    IF event.exact_match THEN df[i] = event.lower_threshold
    ELSE df[i] <= event.lower_threshold

above_upper(event, df, i) ==
    IF event.exact_match THEN df[i] = event.upper_threshold
    ELSE df[i] >= event.upper_threshold

\* the columns below_lower and above_upper of the table
below_lower_column(event, df) == [i \in 1..Len(df) |-> below_lower(event, df, i)]

above_upper_column(event, df) == [i \in 1..Len(df) |-> above_upper(event, df, i)]

\* a rolling window of two rows instead of the whole table
FixedWindow(df) == 2

\* rolling(window=len(df), ...): the width of the window
rolling_window(df) == Len(df)

\* column.rolling(window, min_periods=1).max() at row i: 1.0 when a row of the window
\* ending at i is True, else 0.0
rolling_max(column, window, i) ==
    IF \E j \in 1..i : j > i - window /\ column[j] THEN 1 ELSE 0

\* a shift that fills the first row with 1
ShiftFillOne(column, i) == IF i = 1 THEN 1 ELSE column[i - 1]

\* column.shift(1, fill_value=0) at row i
shift_fill(column, i) == IF i = 1 THEN 0 ELSE column[i - 1]

was_below_lower(event, df, i) ==
    LET rolled == [k \in 1..Len(df) |->
                      rolling_max(below_lower_column(event, df), rolling_window(df), k)]
    IN  shift_fill(rolled, i) = 1

was_above_upper(event, df, i) ==
    LET rolled == [k \in 1..Len(df) |->
                      rolling_max(above_upper_column(event, df), rolling_window(df), k)]
    IN  shift_fill(rolled, i) = 1

\* (column != column.shift(1)).cumsum(): the number of the run of equal flags the row is in
event_group_rise(event, df, i) ==
    Cardinality({k \in 1..i : k = 1 \/ below_lower(event, df, k) # below_lower(event, df, k - 1)})

event_group_fall(event, df, i) ==
    Cardinality({k \in 1..i : k = 1 \/ above_upper(event, df, k) # above_upper(event, df, k - 1)})

\* drop_duplicates(subset=group, keep='first')
drop_duplicates(rows, group(_)) ==
    {i \in rows : \A j \in rows : j < i => group(j) # group(i)}

\* the rising rows when no duplicate of a run is dropped
KeepAll(event, df) ==
    {i \in 1..Len(df) : above_upper(event, df, i) /\ was_below_lower(event, df, i)}

df_rising(event, df) ==
    drop_duplicates({i \in 1..Len(df) : above_upper(event, df, i) /\ was_below_lower(event, df, i)},
                    LAMBDA i : event_group_rise(event, df, i))

\* the falling rows when no duplicate of a run is dropped
KeepAllFalling(event, df) ==
    {i \in 1..Len(df) : below_lower(event, df, i) /\ was_above_upper(event, df, i)}

df_falling(event, df) ==
    drop_duplicates({i \in 1..Len(df) : below_lower(event, df, i) /\ was_above_upper(event, df, i)},
                    LAMBDA i : event_group_fall(event, df, i))

\* the start rows when rising_as_start is not read
RisingAsStart(event, df) == df_rising(event, df)

df_start(event, df) == IF event.rising_as_start THEN df_rising(event, df) ELSE df_falling(event, df)

df_stop(event, df) == IF event.rising_as_start THEN df_falling(event, df) ELSE df_rising(event, df)

\* pd.concat([df_start, df_stop]).sort_index(): the rows by time, a row of both frames first
\* as Start
RECURSIVE sort_index(_, _, _, _)
sort_index(starts, stops, df, i) ==
    IF i > Len(df) THEN <<>>
    ELSE (IF i \in starts
          THEN <<[index |-> i, value |-> df[i], EventType |-> "Start", EventValue |-> 1]>>
          ELSE <<>>)
         \o (IF i \in stops
             THEN <<[index |-> i, value |-> df[i], EventType |-> "Stop", EventValue |-> 0]>>
             ELSE <<>>)
         \o sort_index(starts, stops, df, i + 1)

create_df_signal_event(event, df) ==
    sort_index(df_start(event, df), df_stop(event, df), df, 1)

\* df_signal_event_meta[df_signal_event_meta["EventValue"] == 1]
df_start_events(records) == SelectSeq(records, LAMBDA r : r.EventValue = 1)

InitEvents ==
    /\ BacklogInit("idle", {})
    /\ MoreIdle
    /\ TripIdle
    /\ AggIdle
    /\ LakeIdle
    /\ epc = "events"
    /\ \/ /\ events_cfg \in {<<e>> : e \in Events}
          /\ decoded_files \in {<<df>> : df \in Series}
       \/ /\ events_cfg \in UNION {[1..n -> {e \in Events : ~e.exact_match}] : n \in 0..MaxEvents}
          /\ decoded_files \in {<<ExampleSeries>>, <<<<>>, ExampleSeries>>, <<ExampleSeries, <<5, 0, 5>>>>,
                        <<<<2, 2>>>>}
    /\ n_events = 0
    /\ n_files = 0
    /\ message_sent = FALSE
    /\ df_signal_event = <<>>
    /\ notifications = <<>>
    /\ custom_files = <<>>

event_inputs == <<events_cfg, decoded_files>>

\* process_events: the loop over the events takes the next event
TakeEvent ==
    /\ epc = "events"
    /\ n_events < Len(events_cfg)
    /\ epc' = "files"
    /\ n_files' = 0
    /\ message_sent' = FALSE
    /\ df_signal_event' = <<>>
    /\ UNCHANGED <<event_inputs, n_events, notifications, custom_files>>

\* what the notification collaborator does with one call of publish_notification
PublishOutcomes == {"published", "failed", "raised"}

\* an exception of publish_notification that leaves publish_message
PublishPropagates(outcome) == outcome = "raised"

\* publish_message: whether an exception of publish_notification leaves it
publish_message_raises(outcome) == FALSE

\* publish_message: the result of publish_notification, False on an exception
publish_message(outcome) == outcome = "published"

\* process_events: one file of the current event, with create_df_signal_event, the write of
\* the event table and then, on a Start record while message_sent is False,
\* publish_message
ProcessEventFile ==
    /\ epc = "files"
    /\ n_files < Len(decoded_files)
    /\ n_files' = n_files + 1
    /\ LET event == events_cfg[n_events + 1]
           df_messages == decoded_files[n_files + 1]
           records == create_df_signal_event(event, df_messages)
       IN  IF df_messages = <<>>
           THEN UNCHANGED <<epc, df_signal_event, message_sent, notifications, custom_files>>
           ELSE /\ df_signal_event' = records
                /\ custom_files' =
                       IF records # <<>>
                       THEN Append(custom_files, [event |-> n_events + 1, file |-> n_files + 1,
                                                  records |-> records])
                       ELSE custom_files
                /\ IF records # <<>> /\ ~message_sent /\ df_start_events(records) # <<>>
                   THEN \E outcome \in PublishOutcomes :
                           /\ epc' = IF publish_message_raises(outcome) THEN "raised" ELSE epc
                           /\ message_sent' = publish_message(outcome)
                           /\ notifications' =
                                  Append(notifications,
                                         [event |-> n_events + 1, file |-> n_files + 1,
                                          time |-> df_start_events(records)[1].index,
                                          published |-> publish_message(outcome),
                                          outcome |-> outcome])
                   ELSE UNCHANGED <<epc, message_sent, notifications>>
    /\ UNCHANGED <<event_inputs, n_events>>

\* process_events: the files of the current event are done
EndEvent ==
    /\ epc = "files"
    /\ n_files = Len(decoded_files)
    /\ epc' = "events"
    /\ n_events' = n_events + 1
    /\ UNCHANGED <<event_inputs, n_files, message_sent, df_signal_event, notifications,
                   custom_files>>

\* process_events: the loop over the events is over
ReturnEvents ==
    /\ epc = "events"
    /\ n_events = Len(events_cfg)
    /\ epc' = "done"
    /\ UNCHANGED <<event_inputs, n_events, n_files, message_sent, df_signal_event, notifications,
                   custom_files>>

NextEvents ==
    \/ TakeEvent /\ UNCHANGED <<backlog_vars, trip_vars, agg_vars, lake_vars, more_vars>>
    \/ ProcessEventFile /\ UNCHANGED <<backlog_vars, trip_vars, agg_vars, lake_vars, more_vars>>
    \/ EndEvent /\ UNCHANGED <<backlog_vars, trip_vars, agg_vars, lake_vars, more_vars>>
    \/ ReturnEvents /\ UNCHANGED <<backlog_vars, trip_vars, agg_vars, lake_vars, more_vars>>

SpecEvents == InitEvents /\ [][NextEvents]_vars

\* ---------------------------------------------------------------------------------------
\* Storage listing on the Amazon backend: list_objects_with_pagination (the planner's
\* listing) and list_objects (the listing of AggregateData.list_parquet_files and, as one
\* call of list_objects_v2, of AggregateDataLake.list_parquet_files).
\*
\* A key of the bucket is [device, n]; the backend orders the keys by device, then n, and
\* answers one call of list_objects_v2 with the next max_keys keys under the prefix, with
\* IsTruncated when keys remain and the number of keys delivered as continuation token.
\* ---------------------------------------------------------------------------------------
MaxKeysPerDevice == 3

MaxPageSize == 3

Keys == [device : {"2F6913DB", "3BA199E2"}, n : 1..MaxKeysPerDevice]

ListPrefixes == {"", "2F6913DB", "3BA199E2"}

KeyBefore(k1, k2) ==
    \/ (k1.device = "2F6913DB" /\ k2.device = "3BA199E2")
    \/ (k1.device = k2.device /\ k1.n < k2.n)

\* the keys under the prefix, in the order of the backend
RECURSIVE KeysInOrder(_)
KeysInOrder(keys) ==
    IF keys = {} THEN <<>>
    ELSE LET first == CHOOSE k \in keys : \A other \in keys \ {k} : KeyBefore(k, other)
         IN  <<first>> \o KeysInOrder(keys \ {first})

UnderPrefix(keys, prefix) == {k \in keys : prefix = "" \/ k.device = prefix}

\* client.list_objects_v2(Bucket, Prefix[, ContinuationToken]): one page of the listing
list_objects_v2(keys, prefix, page_size, token) ==
    LET matching == KeysInOrder(UnderPrefix(keys, prefix))
        last == IF token + page_size < Len(matching) THEN token + page_size ELSE Len(matching)
    IN  [Contents |-> SubSeq(matching, token + 1, last),
         IsTruncated |-> last < Len(matching),
         NextContinuationToken |-> IF last < Len(matching) THEN last ELSE 0]

\* list_objects: the objects of the single call of list_objects_v2
list_objects(keys, prefix, page_size) == list_objects_v2(keys, prefix, page_size, 0).Contents

CoreIdle ==
    /\ BacklogInit("idle", {})
    /\ TripIdle
    /\ AggIdle
    /\ LakeIdle
    /\ EventsIdle

InitListing ==
    /\ CoreIdle
    /\ GeoIdle
    /\ TempIdle
    /\ ClusterIdle
    /\ lspc = "start"
    /\ bucket_keys \in SUBSET Keys
    /\ list_prefix \in ListPrefixes
    /\ max_keys \in 1..MaxPageSize
    /\ continuation_token = 0
    /\ is_truncated = TRUE
    /\ all_objects = <<>>
    /\ list_calls = 0
    /\ listed_objects = <<>>

listing_inputs == <<bucket_keys, list_prefix, max_keys>>

\* list_objects_with_pagination: one pass of the loop while is_truncated
ListPage ==
    /\ lspc = "start"
    /\ is_truncated
    /\ LET response == list_objects_v2(bucket_keys, list_prefix, max_keys, continuation_token)
       IN  /\ all_objects' = all_objects \o response.Contents
           /\ is_truncated' = response.IsTruncated
           /\ continuation_token' = response.NextContinuationToken
    /\ list_calls' = list_calls + 1
    /\ UNCHANGED <<listing_inputs, lspc, listed_objects>>

\* list_objects_with_pagination returns all_objects; list_objects lists the same prefix
ReturnObjects ==
    /\ lspc = "start"
    /\ ~is_truncated
    /\ lspc' = "done"
    /\ listed_objects' = list_objects(bucket_keys, list_prefix, max_keys)
    /\ UNCHANGED <<listing_inputs, continuation_token, is_truncated, all_objects, list_calls>>

other_than_listing == <<core_vars, geo_vars, temp_vars, cluster_vars>>

NextListing ==
    \/ ListPage /\ UNCHANGED other_than_listing
    \/ ReturnObjects /\ UNCHANGED other_than_listing

SpecListing == InitListing /\ [][NextListing]_vars

\* ---------------------------------------------------------------------------------------
\* Geofence check: check_geofence of modules/utils.py, which apply_custom_function applies
\* to every row for the function custom_geofences.
\*
\* The positions lie on one meridian with latitudes a whole number of steps apart, and a
\* radius is a whole number of steps: on a meridian the haversine distance is the earth's
\* radius times the difference of the latitudes, so in steps it is that difference.
\* ---------------------------------------------------------------------------------------
MaxGeofences == 3

Latitudes == 0..3

Longitudes == {10}

Geofences ==
    [id : {1, 2}, latitude : {0, 2}, longitude : Longitudes, radius : {0, 1}]

\* haversine(lat1, lon1, lat2, lon2) for two points of one meridian, in steps
haversine(lat1, lon1, lat2, lon2) == IF lat1 >= lat2 THEN lat1 - lat2 ELSE lat2 - lat1

\* the id of the last geofence that holds the position
RECURSIVE CheckGeofenceLast(_, _)
CheckGeofenceLast(r, fences) ==
    IF fences = <<>> THEN 0
    ELSE IF haversine(r.Latitude, r.Longitude, Last(fences).latitude, Last(fences).longitude)
                <= Last(fences).radius
         THEN Last(fences).id
         ELSE CheckGeofenceLast(r, SubSeq(fences, 1, Len(fences) - 1))

\* for geofence in geofences: return geofence_id at the first distance within the radius;
\* return 0 after the loop
RECURSIVE check_geofence(_, _)
check_geofence(r, fences) ==
    IF fences = <<>> THEN 0
    ELSE IF haversine(r.Latitude, r.Longitude, Head(fences).latitude, Head(fences).longitude)
                <= Head(fences).radius
         THEN Head(fences).id
         ELSE check_geofence(r, Tail(fences))

InitGeo ==
    /\ CoreIdle
    /\ ListingIdle
    /\ TempIdle
    /\ ClusterIdle
    /\ gpc = "start"
    /\ geo_row \in [Latitude : Latitudes, Longitude : Longitudes]
    /\ geofences \in UNION {[1..n -> Geofences] : n \in 0..MaxGeofences}
    /\ GeofenceId = 0

\* apply_custom_function: df_messages.apply(check_geofence, axis=1, ...) for one row
CheckGeofence ==
    /\ gpc = "start"
    /\ gpc' = "done"
    /\ GeofenceId' = check_geofence(geo_row, geofences)
    /\ UNCHANGED <<geo_row, geofences>>

NextGeo == CheckGeofence /\ UNCHANGED <<core_vars, listing_vars, temp_vars, cluster_vars>>

SpecGeo == InitGeo /\ [][NextGeo]_vars

-----------------------------------------------------------------------------
(* The temporary directories of one unit of work: process_single_device of  *)
(* AggregateData and of AggregateDataLake, and process of the backlog entry  *)
(* script.  temp_plan says what each step of the unit meets.                 *)

MaxAggregations == 2    \* aggregations of the cluster in one call of AggregateDataLake.process_single_device

\* AggregateData.process_single_device: list_parquet_files, get_parquet_files, the loop
\* over the aggregations
AggregatorPlans ==
    {<<l, g, a>> : l \in {"files", "no_files", "raises"},
                   g \in {"local_files", "no_local_files", "raises"},
                   a \in {"results", "file_error", "raises"}}

\* AggregateDataLake.process_single_device: the trip windows, then per aggregation the
\* files listed, downloaded and read
AggregatorS3Plans ==
    {<<t>> \o a : t \in {"no_trip_message", "no_windows", "windows"},
                  a \in UNION {[1..n -> {"no_files", "tables", "download_raises", "read_raises"}]
                                   : n \in 0..MaxAggregations}}

\* process of the entry script: the step that raises, and what main of the backlog script
\* does when no step before it raises
EntryPlans ==
    {<<f, "none">> : f \in {"parameters", "mkdtemp_temp", "mkdtemp_extract", "download",
                            "extract", "import"}}
        \cup {<<"none", r>> : r \in {"zero", "nonzero", "raises", "system_exit"}}

\* tempfile.TemporaryDirectory() of pass k, tempfile.mkdtemp("lambda_processing_"),
\* tempfile.mkdtemp("lambda_extract_", dir=temp_dir)
TemporaryDirectory(k) == [path |-> "temp_dir", pass |-> k, parent |-> "none"]

temp_dir == [path |-> "lambda_processing_", pass |-> 0, parent |-> "none"]

extract_dir == [path |-> "lambda_extract_", pass |-> 0, parent |-> "lambda_processing_"]

\* the end of the with block of a TemporaryDirectory, on every way out of the block
cleanup(dirs, tmp) == dirs \ {tmp}

\* a removal that leaves the tree
KeepTree(dirs, tmp) == dirs

\* shutil.rmtree(tmp, ignore_errors=True): the directory and what is under it
rmtree(dirs, tmp) == {x \in dirs : x # tmp /\ x.parent # tmp.path}

InitTemp ==
    /\ CoreIdle
    /\ ListingIdle
    /\ GeoIdle
    /\ ClusterIdle
    /\ dpc = "start"
    /\ \/ temp_unit = "aggregator" /\ temp_plan \in AggregatorPlans
       \/ temp_unit = "aggregator_s3" /\ temp_plan \in AggregatorS3Plans
       \/ temp_unit = "entry" /\ temp_plan \in EntryPlans
    /\ temp_step = 0
    /\ temp_dirs = {}
    /\ temp_created = {}
    /\ temp_ret = "none"

temp_inputs == <<temp_unit, temp_plan>>

\* AggregateData.process_single_device: list_parquet_files, then the with block is entered
AggregatorListFiles ==
    /\ dpc = "start"
    /\ temp_unit = "aggregator"
    /\ temp_step' = 1
    /\ IF temp_plan[1] = "files"
       THEN /\ dpc' = "with"
            /\ temp_dirs' = temp_dirs \cup {TemporaryDirectory(1)}
            /\ temp_created' = temp_created \cup {TemporaryDirectory(1)}
            /\ UNCHANGED temp_ret
       ELSE /\ dpc' = "returned"
            /\ temp_ret' = "empty"
            /\ UNCHANGED <<temp_dirs, temp_created>>
    /\ UNCHANGED temp_inputs

\* AggregateData.process_single_device: get_parquet_files; return [] and an exception
\* both leave the with block
AggregatorDownload ==
    /\ dpc = "with"
    /\ temp_unit = "aggregator"
    /\ temp_step = 1
    /\ temp_step' = 2
    /\ IF temp_plan[2] = "local_files"
       THEN /\ dpc' = "aggregate"
            /\ UNCHANGED <<temp_dirs, temp_ret>>
       ELSE /\ dpc' = "returned"
            /\ temp_dirs' = cleanup(temp_dirs, TemporaryDirectory(1))
            /\ temp_ret' = "empty"
    /\ UNCHANGED <<temp_inputs, temp_created>>

\* AggregateData.process_single_device: the loop over the aggregations, the end of the
\* with block, and return device_results or, from the handler, return []
AggregatorAggregate ==
    /\ dpc = "aggregate"
    /\ temp_unit = "aggregator"
    /\ temp_step' = 3
    /\ dpc' = "returned"
    /\ temp_dirs' = cleanup(temp_dirs, TemporaryDirectory(1))
    /\ temp_ret' = IF temp_plan[3] = "raises" THEN "empty" ELSE "device_results"
    /\ UNCHANGED <<temp_inputs, temp_created>>

\* AggregateDataLake.process_single_device: the trip message and the trip windows
AggregatorS3TripWindows ==
    /\ dpc = "start"
    /\ temp_unit = "aggregator_s3"
    /\ temp_step' = 1
    /\ IF temp_plan[1] = "windows"
       THEN dpc' = "aggregations" /\ UNCHANGED temp_ret
       ELSE dpc' = "returned" /\ temp_ret' = "empty"
    /\ UNCHANGED <<temp_inputs, temp_dirs, temp_created>>

\* AggregateDataLake.process_single_device: the next aggregation; without files it is
\* skipped, else the with block is entered
AggregatorS3ListFiles ==
    /\ dpc = "aggregations"
    /\ temp_unit = "aggregator_s3"
    /\ temp_step < Len(temp_plan)
    /\ IF temp_plan[temp_step + 1] = "no_files"
       THEN /\ temp_step' = temp_step + 1
            /\ UNCHANGED <<dpc, temp_dirs, temp_created>>
       ELSE /\ dpc' = "with"
            /\ temp_dirs' = temp_dirs \cup {TemporaryDirectory(temp_step)}
            /\ temp_created' = temp_created \cup {TemporaryDirectory(temp_step)}
            /\ UNCHANGED temp_step
    /\ UNCHANGED <<temp_inputs, temp_ret>>

\* AggregateDataLake.process_single_device: the download and the read of the tables, and
\* the end of the with block; an exception leaves the function
AggregatorS3ReadTables ==
    /\ dpc = "with"
    /\ temp_unit = "aggregator_s3"
    /\ temp_step' = temp_step + 1
    /\ temp_dirs' = cleanup(temp_dirs, TemporaryDirectory(temp_step))
    /\ IF temp_plan[temp_step + 1] = "tables"
       THEN dpc' = "aggregations" /\ UNCHANGED temp_ret
       ELSE dpc' = "raised" /\ temp_ret' = "exception"
    /\ UNCHANGED <<temp_inputs, temp_created>>

\* AggregateDataLake.process_single_device: return device_results
AggregatorS3Return ==
    /\ dpc = "aggregations"
    /\ temp_unit = "aggregator_s3"
    /\ temp_step = Len(temp_plan)
    /\ dpc' = "returned"
    /\ temp_ret' = "device_results"
    /\ UNCHANGED <<temp_inputs, temp_step, temp_dirs, temp_created>>

\* process: the parameters and tempfile.mkdtemp(prefix="lambda_processing_")
EntryMkdtemp ==
    /\ dpc = "start"
    /\ temp_unit = "entry"
    /\ temp_step' = 1
    /\ IF temp_plan[1] \in {"parameters", "mkdtemp_temp"}
       THEN /\ dpc' = "finally"
            /\ temp_ret' = "1"
            /\ UNCHANGED <<temp_dirs, temp_created>>
       ELSE /\ dpc' = "mkdtemp_extract"
            /\ temp_dirs' = temp_dirs \cup {temp_dir}
            /\ temp_created' = temp_created \cup {temp_dir}
            /\ UNCHANGED temp_ret
    /\ UNCHANGED temp_inputs

\* process: tempfile.mkdtemp(prefix="lambda_extract_", dir=temp_dir)
EntryMkdtempExtract ==
    /\ dpc = "mkdtemp_extract"
    /\ IF temp_plan[1] = "mkdtemp_extract"
       THEN /\ dpc' = "finally"
            /\ temp_ret' = "1"
            /\ UNCHANGED <<temp_dirs, temp_created>>
       ELSE /\ dpc' = "run"
            /\ temp_dirs' = temp_dirs \cup {extract_dir}
            /\ temp_created' = temp_created \cup {extract_dir}
            /\ UNCHANGED temp_ret
    /\ UNCHANGED <<temp_inputs, temp_step>>

\* process: the download and the extraction of the archive, the import of the backlog
\* script and its main; the handler turns an Exception into 1, a SystemExit passes it
EntryRun ==
    /\ dpc = "run"
    /\ dpc' = "finally"
    /\ temp_step' = 2
    /\ temp_ret' = IF temp_plan[1] # "none" THEN "1"
                   ELSE CASE temp_plan[2] = "zero" -> "0"
                          [] temp_plan[2] = "nonzero" -> "result"
                          [] temp_plan[2] = "raises" -> "1"
                          [] OTHER -> "system_exit"
    /\ UNCHANGED <<temp_inputs, temp_dirs, temp_created>>

\* process: the finally block
EntryFinally ==
    /\ dpc = "finally"
    /\ LET without_extract == IF extract_dir \in temp_dirs THEN rmtree(temp_dirs, extract_dir)
                              ELSE temp_dirs
       IN  temp_dirs' = IF temp_dir \in without_extract THEN rmtree(without_extract, temp_dir)
                        ELSE without_extract
    /\ dpc' = IF temp_ret = "system_exit" THEN "raised" ELSE "returned"
    /\ UNCHANGED <<temp_inputs, temp_step, temp_created, temp_ret>>

other_than_temp == <<core_vars, listing_vars, geo_vars, cluster_vars>>

NextTemp ==
    \/ AggregatorListFiles /\ UNCHANGED other_than_temp
    \/ AggregatorDownload /\ UNCHANGED other_than_temp
    \/ AggregatorAggregate /\ UNCHANGED other_than_temp
    \/ AggregatorS3TripWindows /\ UNCHANGED other_than_temp
    \/ AggregatorS3ListFiles /\ UNCHANGED other_than_temp
    \/ AggregatorS3ReadTables /\ UNCHANGED other_than_temp
    \/ AggregatorS3Return /\ UNCHANGED other_than_temp
    \/ EntryMkdtemp /\ UNCHANGED other_than_temp
    \/ EntryMkdtempExtract /\ UNCHANGED other_than_temp
    \/ EntryRun /\ UNCHANGED other_than_temp
    \/ EntryFinally /\ UNCHANGED other_than_temp

SpecTemp == InitTemp /\ [][NextTemp]_vars

-----------------------------------------------------------------------------
(* The loop of process_data_lake over the device clusters of the             *)
(* configuration, for AggregateData and for AggregateDataLake.  Every device *)
(* of a processed cluster yields one record.                                 *)

MaxClusters == 2        \* entries of device_clusters, and of cluster_details
MaxClusterDays == 2     \* days of the date range

ClusterNames == {"c1", "c2", "c3"}

DeviceClusterEntries == [cluster : ClusterNames, devices : {<<"d1">>, <<"d2", "d3">>}]

\* an entry of cluster_details: "cluster" is the key AggregateData reads, "clusters" the
\* one AggregateDataLake reads
ClusterDetailEntries == {[cluster |-> c, clusters |-> {c}] : c \in {"c1", "c2"}}

\* None
NoClusterDetail == [cluster |-> "none", clusters |-> {}]

\* AggregateData.get_cluster_detail: the first entry of the cluster, None without one
get_cluster_detail(details, cluster) ==
    IF \E i \in 1..Len(details) : details[i].cluster = cluster
    THEN details[CHOOSE i \in 1..Len(details) :
                     /\ details[i].cluster = cluster
                     /\ \A j \in 1..(i - 1) : details[j].cluster # cluster]
    ELSE NoClusterDetail

\* AggregateDataLake.get_cluster_detail: next(..., None)["details"] raises a TypeError when
\* no entry lists the cluster
get_cluster_detail_s3_raises(details, cluster) ==
    ~\E i \in 1..Len(details) : cluster \in details[i].clusters

\* the records of the devices of one cluster for one day
ClusterRecords(device_cluster, day) ==
    [i \in 1..Len(device_cluster.devices) |->
        [cluster |-> device_cluster.cluster, device_id |-> device_cluster.devices[i],
         day |-> day]]

StartRun == [pc |-> "clusters", day |-> 1, n_clusters |-> 0, daily_results |-> <<>>,
             written |-> <<>>]

InitClusters ==
    /\ CoreIdle
    /\ ListingIdle
    /\ GeoIdle
    /\ TempIdle
    /\ device_clusters \in UNION {[1..n -> DeviceClusterEntries] : n \in 0..MaxClusters}
    /\ cluster_details \in UNION {[1..n -> ClusterDetailEntries] : n \in 0..MaxClusters}
    /\ cluster_run = StartRun
    /\ cluster_run_s3 = StartRun

cluster_inputs == <<device_clusters, cluster_details>>

\* the end of one day: the write of the daily results, if any, and the next day
EndOfDay(run) ==
    [pc |-> IF run.day = MaxClusterDays THEN "done" ELSE "clusters",
     day |-> run.day + 1,
     n_clusters |-> 0,
     daily_results |-> <<>>,
     written |-> IF run.daily_results # <<>>
                 THEN Append(run.written, [day |-> run.day, results |-> run.daily_results])
                 ELSE run.written]

\* AggregateData.process_data_lake: one pass of the loop over the device clusters
ProcessCluster ==
    /\ cluster_run.pc = "clusters"
    /\ cluster_run.n_clusters < Len(device_clusters)
    /\ LET device_cluster == device_clusters[cluster_run.n_clusters + 1]
           cluster_detail == get_cluster_detail(cluster_details, device_cluster.cluster)
       IN  cluster_run' =
               [cluster_run EXCEPT
                    !.n_clusters = @ + 1,
                    !.daily_results =
                        IF cluster_detail = NoClusterDetail THEN @
                        ELSE @ \o ClusterRecords(device_cluster, cluster_run.day)]
    /\ UNCHANGED <<cluster_inputs, cluster_run_s3>>

\* AggregateData.process_data_lake: the clusters of the day are done
EndClusterDay ==
    /\ cluster_run.pc = "clusters"
    /\ cluster_run.n_clusters = Len(device_clusters)
    /\ cluster_run' = EndOfDay(cluster_run)
    /\ UNCHANGED <<cluster_inputs, cluster_run_s3>>

\* AggregateDataLake.process_data_lake: one pass of the loop over the device clusters
ProcessClusterS3 ==
    /\ cluster_run_s3.pc = "clusters"
    /\ cluster_run_s3.n_clusters < Len(device_clusters)
    /\ LET device_cluster == device_clusters[cluster_run_s3.n_clusters + 1]
       IN  IF get_cluster_detail_s3_raises(cluster_details, device_cluster.cluster)
           THEN cluster_run_s3' = [cluster_run_s3 EXCEPT !.pc = "raised"]
           ELSE cluster_run_s3' =
                    [cluster_run_s3 EXCEPT
                         !.n_clusters = @ + 1,
                         !.daily_results =
                             @ \o ClusterRecords(device_cluster, cluster_run_s3.day)]
    /\ UNCHANGED <<cluster_inputs, cluster_run>>

\* AggregateDataLake.process_data_lake: the clusters of the day are done
EndClusterDayS3 ==
    /\ cluster_run_s3.pc = "clusters"
    /\ cluster_run_s3.n_clusters = Len(device_clusters)
    /\ cluster_run_s3' = EndOfDay(cluster_run_s3)
    /\ UNCHANGED <<cluster_inputs, cluster_run>>

other_than_clusters == <<core_vars, listing_vars, geo_vars, temp_vars>>

NextClusters ==
    \/ ProcessCluster /\ UNCHANGED other_than_clusters
    \/ EndClusterDay /\ UNCHANGED other_than_clusters
    \/ ProcessClusterS3 /\ UNCHANGED other_than_clusters
    \/ EndClusterDayS3 /\ UNCHANGED other_than_clusters

SpecClusters == InitClusters /\ [][NextClusters]_vars

\* ---- properties of the signal aggregator ----
\* the records one call appended for one trip window and one signal, per variant
CallRecords(trip_window, signal) ==
    SelectSeq(device_results,
              LAMBDA r : r.start_time = trip_window[1] /\ r.end_time = trip_window[2]
                         /\ r.signal = signal)

CallRecordsS3(trip_window, signal) ==
    SelectSeq(device_results_s3,
              LAMBDA r : r.trip_start = trip_window[1] /\ r.trip_end = trip_window[2]
                         /\ r.signal = signal)

PassedWindows == {agg_windows[i] : i \in 1..n_windows}

\* C12: for a trip window that selects rows and a signal of the table, each variant of
\* process_aggregation_for_trip emits exactly one record per requested aggregation type, in
\* the requested order and with count as a type of its own, and every record of the call
\* carries the same trip_id.
C12_OneRecordPerType ==
    \A w \in PassedWindows : \A s \in Range(signals) \cap TableColumns :
        FilterWindow(table, w) # <<>> =>
            /\ [j \in 1..Len(CallRecords(w, s)) |-> CallRecords(w, s)[j].aggregation]
                   = aggregation_types
            /\ [j \in 1..Len(CallRecordsS3(w, s)) |-> CallRecordsS3(w, s)[j].aggregation_type]
                   = aggregation_types
            /\ \A j \in 1..Len(CallRecords(w, s)) :
                  /\ "trip_id" \in DOMAIN CallRecords(w, s)[j]
                  /\ CallRecords(w, s)[j].trip_id = CallRecords(w, s)[1].trip_id
            /\ \A j \in 1..Len(CallRecordsS3(w, s)) :
                  /\ "trip_id" \in DOMAIN CallRecordsS3(w, s)[j]
                  /\ CallRecordsS3(w, s)[j].trip_id = CallRecordsS3(w, s)[1].trip_id

\* What holds of the S3 variant alone: one record per requested type that it computes, all
\* with one trip_id.
S3OneRecordPerComputedType ==
    \A w \in PassedWindows : \A s \in Range(signals) \cap TableColumns :
        FilterWindow(table, w) # <<>> =>
            /\ [j \in 1..Len(CallRecordsS3(w, s)) |-> CallRecordsS3(w, s)[j].aggregation_type]
                   = SelectSeq(aggregation_types, LAMBDA a : a \in S3Types)
            /\ \A j \in 1..Len(CallRecordsS3(w, s)) :
                  CallRecordsS3(w, s)[j].trip_id = <<DEVICE_ID, w[1]>>

\* the rows of the table whose time lies in the closed trip window
RowsInWindow(w) == {i \in 1..Len(table) : w[1] <= table[i].t /\ table[i].t <= w[2]}

NonNullInWindow(w) == {i \in RowsInWindow(w) : table[i].X # {}}

WindowSpan(w) ==
    Max({table[i].t : i \in RowsInWindow(w)}) - Min({table[i].t : i \in RowsInWindow(w)})

CountAndDuration(r, w) ==
    /\ "count" \in DOMAIN r
    /\ "duration" \in DOMAIN r
    /\ r.count = Cardinality(NonNullInWindow(w))
    /\ r.duration = WindowSpan(w)

\* C13: every record of a call, in each variant, carries as count the number of non-null
\* values of its signal among the rows with start <= t <= end (both ends included), and as
\* duration the difference of the largest and the smallest time among those rows.
C13_CountAndDuration ==
    \A w \in PassedWindows : \A s \in Range(signals) \cap TableColumns :
        /\ \A j \in 1..Len(CallRecords(w, s)) : CountAndDuration(CallRecords(w, s)[j], w)
        /\ \A j \in 1..Len(CallRecordsS3(w, s)) : CountAndDuration(CallRecordsS3(w, s)[j], w)

\* What holds: the S3 variant's records carry that count and that duration, and the count
\* row of modules/aggregation.py carries the number of rows in the closed window.
S3CountAndDuration ==
    \A w \in PassedWindows : \A s \in Range(signals) \cap TableColumns :
        /\ \A j \in 1..Len(CallRecordsS3(w, s)) : CountAndDuration(CallRecordsS3(w, s)[j], w)
        /\ \A j \in 1..Len(CallRecords(w, s)) :
              CallRecords(w, s)[j].aggregation = "count" =>
                  CallRecords(w, s)[j].value = Num(Cardinality(RowsInWindow(w)))

\* C14: a signal the table lacks, and a trip window that selects no rows, yield no record
\* for that pair in either variant, and the call returns; the signals of the table and the
\* windows that select rows still yield their records in the same run.
C14_MissingSkipped ==
    \A w \in PassedWindows : \A s \in Range(signals) :
        IF s \notin TableColumns \/ RowsInWindow(w) = {}
        THEN CallRecords(w, s) = <<>> /\ CallRecordsS3(w, s) = <<>>
        ELSE /\ Len(CallRecords(w, s))
                    = Len(SelectSeq(aggregation_types, LAMBDA a : a \in Types))
             /\ Len(CallRecordsS3(w, s))
                    = Len(SelectSeq(aggregation_types, LAMBDA a : a \in S3Types))

C14_Witness ==
    /\ apc = "done"
    /\ signals = <<"Z", "X">>
    /\ agg_windows = << <<6, 9>>, <<0, 10>> >>
    /\ aggregation_types = <<"avg", "count">>
    /\ table # <<>>
    /\ Len(device_results) = 2
    /\ Len(device_results_s3) = 1

\* ---- properties of the data lake run ----
\* the records the units of the n-th date of the range hand to the loop, per variant
RecordsOfDate(n) ==
    DailyResults([i \in 1..Len(devices) |-> unit[n][i]], devices,
                 daterange(start_date, end_date)[n])

RecordsOfDateS3(n) ==
    DailyResultsS3([i \in 1..Len(devices) |-> unit[n][i]], devices,
                   daterange(StartDateS3(date_config), EndDateS3(date_config))[n])

\* the writes are those of the passed dates with records, one per date, in date order,
\* each with the records of that date and no other, and days_processed counts them
WritesOncePerDate(w, passed, recs(_), processed) ==
    /\ \A k \in 1..Len(w) : \A j \in 1..Len(w[k].results) : w[k].results[j].date = w[k].date
    /\ \A k \in 1..Len(w) : \A l \in 1..Len(w) : w[k].date = w[l].date => k = l
    /\ \A n \in 1..passed : recs(n) # <<>> => \E k \in 1..Len(w) : w[k].results = recs(n)
    /\ processed = Cardinality({n \in 1..passed : recs(n) # <<>>})
    /\ processed = Len(w)

\* C15: in each variant of process_data_lake the records of a date are those of all the
\* devices for that date only, the date's file is written exactly once when there is a
\* record and never when there is none, and days_processed is the number of dates with a
\* record and never exceeds total_days.
C15_OneWritePerDate ==
    /\ lpc \in {"days", "done"} =>
          WritesOncePerDate(written, n_days, RecordsOfDate, days_processed)
    /\ lpc = "done" => days_processed <= total_days(start_date, end_date)
    /\ lpc_s3 \in {"start", "done"} =>
          WritesOncePerDate(written_s3, n_days_s3, RecordsOfDateS3, days_processed_s3)
    /\ lpc_s3 = "done" =>
          days_processed_s3 <= total_days(StartDateS3(date_config), EndDateS3(date_config))

\* What holds: the writes and the count are as claimed, and the count stays within
\* total_days whenever the end date is not more than one day before the start date.
LakeWritesOncePerDate ==
    /\ lpc \in {"days", "done"} =>
          /\ WritesOncePerDate(written, n_days, RecordsOfDate, days_processed)
          /\ end_date >= start_date - 1 => days_processed <= total_days(start_date, end_date)
    /\ lpc_s3 \in {"start", "done"} =>
          WritesOncePerDate(written_s3, n_days_s3, RecordsOfDateS3, days_processed_s3)

EndBeforeStart(dc) ==
    /\ dc.mode = {"specific_period"}
    /\ \E st \in dc.start_date : \E en \in dc.end_date : st.ok /\ en.ok /\ en.day < st.day

\* C16: a specific_period date configuration whose end date is before its start date is
\* rejected as a fatal configuration error before any date is processed.
C16_EndBeforeStartRejected ==
    (EndBeforeStart(date_config) /\ lpc # "start") => lpc = "raised"

\* What holds: such a configuration is accepted, no date is processed, nothing is written
\* and the run returns 0.
EndBeforeStartProcessesNothing ==
    (EndBeforeStart(date_config) /\ lpc # "start") =>
        /\ lpc \in {"days", "done"}
        /\ n_days = 0
        /\ days_processed = 0
        /\ written = <<>>

\* the records written by a run, of all dates
AllWritten(w) == UNION {Range(w[k].results) : k \in 1..Len(w)}

FailureIsolated(done, w, st, en, failures) ==
    done =>
        \A n \in 1..Len(daterange(st, en)) : \A i \in 1..Len(devices) :
            /\ unit[n][i] \in failures =>
                  [device_id |-> devices[i], date |-> daterange(st, en)[n]] \notin AllWritten(w)
            /\ unit[n][i] = "records" =>
                  [device_id |-> devices[i], date |-> daterange(st, en)[n]] \in AllWritten(w)

\* C17: in each variant a failure inside one (device, day) unit is caught, the unit yields
\* no records, and the other devices and the later dates are still processed.
C17_FailureIsolated ==
    /\ lpc_s3 # "raised"
    /\ FailureIsolated(lpc = "done", written, start_date, end_date, {"raises", "partial"})
    /\ FailureIsolated(lpc_s3 = "done", written_s3, StartDateS3(date_config),
                       EndDateS3(date_config), {"raises", "partial"})

\* What holds of modules/aggregation.py: the run always reaches its end once the
\* configuration is accepted, a unit that fails before its first record yields nothing,
\* and every unit that meets no failure has its records written.
AggregateDataFailureIsolated ==
    /\ lpc \in {"start", "raised", "days", "done"}
    /\ FailureIsolated(lpc = "done", written, start_date, end_date, {"raises"})

\* ---- properties of the event detector ----
\* the file whose event records df_signal_event holds
FilePassedLast ==
    /\ epc = "files"
    /\ n_files > 0
    /\ decoded_files[n_files] # <<>>

\* C18: for a time-ordered table with distinct timestamps and lower_threshold below
\* upper_threshold, the event records of create_df_signal_event for one trigger signal are
\* in timestamp order and no two consecutive records have the same EventType.
C18_StartStopAlternate ==
    FilePassedLast =>
        \A k \in 1..(Len(df_signal_event) - 1) :
            /\ df_signal_event[k].index < df_signal_event[k + 1].index
            /\ df_signal_event[k].EventType # df_signal_event[k + 1].EventType

C18_Witness ==
    /\ FilePassedLast
    /\ decoded_files[n_files] = <<0, 5, 0, 5>>
    /\ events_cfg[n_events + 1].lower_threshold < events_cfg[n_events + 1].upper_threshold
    /\ Len(df_signal_event) = 3
    /\ df_signal_event[1].EventType = "Start"
    /\ df_signal_event[2].EventType = "Stop"
    /\ df_signal_event[3].EventType = "Start"

\* the series is at or below the lower threshold up to a, then at or above the upper
\* threshold up to b, then at or below the lower threshold to its end
ThreePhases(event, df, a, b) ==
    /\ 1 <= a /\ a < b /\ b < Len(df)
    /\ \A i \in 1..a : df[i] <= event.lower_threshold
    /\ \A i \in (a + 1)..b : df[i] >= event.upper_threshold
    /\ \A i \in (b + 1)..Len(df) : df[i] <= event.lower_threshold

Published == SelectSeq(notifications, LAMBDA n : n.published)

\* C20: within one run of process_events at most one notification is dispatched, on the
\* first Start record met; a later Start record of any event, file or trigger signal sends
\* nothing.
C20_OneNotificationPerRun == Len(Published) <= 1

\* What holds: within one event of the run at most one notification is published, and no
\* call of publish_message follows a published one in the same event.
OneNotificationPerEvent ==
    \A k \in 1..Len(notifications) : \A l \in 1..Len(notifications) :
        (k < l /\ notifications[k].event = notifications[l].event) =>
            ~notifications[k].published

\* the (event, file) passes of the loops of process_events so far
UnitsPassed ==
    n_events * Len(decoded_files) + (IF epc \in {"files", "raised"} THEN n_files ELSE 0)

\* the event tables of the first u passes, from the events and the files alone
RECURSIVE ExpectedCustomFiles(_)
ExpectedCustomFiles(u) ==
    IF u = 0 THEN <<>>
    ELSE LET e == ((u - 1) \div Len(decoded_files)) + 1
             f == ((u - 1) % Len(decoded_files)) + 1
             records == create_df_signal_event(events_cfg[e], decoded_files[f])
         IN  ExpectedCustomFiles(u - 1)
                 \o (IF decoded_files[f] # <<>> /\ records # <<>>
                     THEN <<[event |-> e, file |-> f, records |-> records]>>
                     ELSE <<>>)

\* C21: a publish that fails or raises never changes the event records produced or
\* written: the error does not leave process_events, the event table of a file is written
\* when its publish is attempted, and the event tables of all the files and events passed
\* are those the events and the files determine.
C21_PublishFailureHarmless ==
    /\ epc # "raised"
    /\ custom_files = ExpectedCustomFiles(UnitsPassed)
    /\ \A k \in 1..Len(notifications) :
          \E l \in 1..Len(custom_files) :
              /\ custom_files[l].event = notifications[k].event
              /\ custom_files[l].file = notifications[k].file

C21_Witness ==
    /\ epc = "done"
    /\ Len(events_cfg) = 2
    /\ Len(notifications) = 2
    /\ notifications[1].outcome = "raised"
    /\ notifications[2].outcome = "failed"
    /\ Len(custom_files) = 2

\* ---- properties of the storage listing ----
\* a listing holds every key under the prefix exactly once
CompleteListing(objects) ==
    /\ Range(objects) = UnderPrefix(bucket_keys, list_prefix)
    /\ Len(objects) = Cardinality(UnderPrefix(bucket_keys, list_prefix))

\* the pages the backend needs for the keys under the prefix, one when there is none
PagesNeeded ==
    IF UnderPrefix(bucket_keys, list_prefix) = {} THEN 1
    ELSE (Cardinality(UnderPrefix(bucket_keys, list_prefix)) + max_keys - 1) \div max_keys

\* C22: every listing of the planner and of the aggregator returns all the objects under
\* the prefix, each exactly once, also when the backend delivers more than one page, and
\* the paginated loop stops as soon as the backend reports no further page.
C22_ListingComplete ==
    lspc = "done" =>
        /\ CompleteListing(all_objects)
        /\ list_calls = PagesNeeded
        /\ CompleteListing(listed_objects)

\* What holds: the planner's listing, list_objects_with_pagination, is complete and calls
\* the backend once per page; list_objects returns the first page.
PaginatedListingComplete ==
    lspc = "done" =>
        /\ CompleteListing(all_objects)
        /\ list_calls = PagesNeeded
        /\ listed_objects = SubSeq(all_objects, 1, Len(listed_objects))
        /\ (PagesNeeded = 1 => CompleteListing(listed_objects))

\* ---- properties of the geofence check ----
Contains(fence) ==
    haversine(geo_row.Latitude, geo_row.Longitude, fence.latitude, fence.longitude)
        <= fence.radius

C24_OptimizeOnlyBelowMin ==
    optimized => Len(AllFiles(provisional)) < min_batch_size

\* What holds: the optimisation runs only if there is more than one provisional batch and
\* the number of entries of backlog.json is below min_batch_size.
OptimizeOnlyFewEntries ==
    optimized => (Len(provisional) > 1 /\ total_items < min_batch_size)

\* C28: when the size optimisation does not run, the batches handed to process_mdf_batches
\* are the provisional groups of process_backlog, in the same order and with the same
\* files: nothing is merged or split, and neither min_batch_size nor max_batch_size limits
\* their size.
C28_UnoptimizedBatchesUnchanged ==
    (pc \in {"dispatch", "returned"} /\ ~optimized /\ ~AbortedBeforePlanning) =>
        /\ backlog_batches = provisional
        /\ \A i \in 1..Len(dispatched) : dispatched[i] = provisional[i]

C28_Witness ==
    /\ pc = "returned"
    /\ ~optimized
    /\ ~AbortedBeforePlanning
    /\ dispatched = provisional
    /\ \E i \in 1..Len(dispatched) : Len(dispatched[i]) > max_batch_size
    /\ \E i \in 1..Len(dispatched) : Len(dispatched[i]) < min_batch_size

\* the rows of the file passed last that its event records report as rising edges, and as
\* falling edges
ReportedRising ==
    LET rising_type == IF events_cfg[n_events + 1].rising_as_start THEN "Start" ELSE "Stop"
    IN  {df_signal_event[k].index :
             k \in {l \in 1..Len(df_signal_event) : df_signal_event[l].EventType = rising_type}}

ReportedFalling ==
    LET falling_type == IF events_cfg[n_events + 1].rising_as_start THEN "Stop" ELSE "Start"
    IN  {df_signal_event[k].index :
             k \in {l \in 1..Len(df_signal_event) : df_signal_event[l].EventType = falling_type}}

\* row i is the first sample of a maximal run of above_upper samples, of below_lower samples
FirstOfAboveRun(event, df, i) ==
    /\ above_upper(event, df, i)
    /\ (i > 1 => ~above_upper(event, df, i - 1))

FirstOfBelowRun(event, df, i) ==
    /\ below_lower(event, df, i)
    /\ (i > 1 => ~below_lower(event, df, i - 1))

RECURSIVE seen_below(_, _, _)
seen_below(event, df, i) ==
    IF i = 1 THEN FALSE
    ELSE seen_below(event, df, i - 1) \/ below_lower(event, df, i - 1)

RECURSIVE seen_above(_, _, _)
seen_above(event, df, i) ==
    IF i = 1 THEN FALSE
    ELSE seen_above(event, df, i - 1) \/ above_upper(event, df, i - 1)

\* C26: the history flags of the detector equal those of a single forward scan:
\* was_below_lower (was_above_upper) at sample i is true exactly when some sample j < i was
\* below_lower (above_upper); it is false at the first sample, excludes the current sample,
\* and once true stays true for the rest of the table.
C26_HistoryFlagsAreForwardScan ==
    FilePassedLast =>
        LET event == events_cfg[n_events + 1]
            df == decoded_files[n_files]
        IN  /\ ~was_below_lower(event, df, 1)
            /\ ~was_above_upper(event, df, 1)
            /\ \A i \in 1..Len(df) :
                  /\ was_below_lower(event, df, i) = seen_below(event, df, i)
                  /\ was_above_upper(event, df, i) = seen_above(event, df, i)
                  /\ was_below_lower(event, df, i)
                         <=> \E j \in 1..(i - 1) : below_lower(event, df, j)
                  /\ was_above_upper(event, df, i)
                         <=> \E j \in 1..(i - 1) : above_upper(event, df, j)
                  /\ \A k \in i..Len(df) :
                        /\ was_below_lower(event, df, i) => was_below_lower(event, df, k)
                        /\ was_above_upper(event, df, i) => was_above_upper(event, df, k)

\* the only sample below the lower threshold is the first one, three rows before the
\* sample above the upper threshold: the flag is false at row 1 and true at row 4, where
\* the rising edge is reported
C26_Witness ==
    /\ FilePassedLast
    /\ decoded_files[n_files] = <<0, 2, 2, 5>>
    /\ events_cfg[n_events + 1] = ExampleEvent
    /\ below_lower(ExampleEvent, decoded_files[n_files], 1)
    /\ ~was_below_lower(ExampleEvent, decoded_files[n_files], 1)
    /\ was_below_lower(ExampleEvent, decoded_files[n_files], 4)
    /\ df_signal_event = <<[index |-> 4, value |-> 5, EventType |-> "Start", EventValue |-> 1]>>

\* C30: the history of the edge detection is local to one table and one trigger signal:
\* every emitted rising-edge record is an above_upper sample preceded in the same table by
\* a below_lower sample, every falling-edge record is a below_lower sample preceded in the
\* same table by an above_upper sample, and the first sample of a table is never emitted
\* as an event, whatever the last samples of the file processed before it were.
C30_EdgeHistoryLocalToTable ==
    FilePassedLast =>
        LET event == events_cfg[n_events + 1]
            df == decoded_files[n_files]
        IN  /\ \A i \in ReportedRising :
                  /\ i \in 1..Len(df)
                  /\ above_upper(event, df, i)
                  /\ \E j \in 1..(i - 1) : below_lower(event, df, j)
            /\ \A i \in ReportedFalling :
                  /\ i \in 1..Len(df)
                  /\ below_lower(event, df, i)
                  /\ \E j \in 1..(i - 1) : above_upper(event, df, j)
            /\ \A k \in 1..Len(df_signal_event) : df_signal_event[k].index # 1

\* the file before ended below the lower threshold and the table starts above the upper
\* one: its first sample is no rising edge, its third one is
C30_Witness ==
    /\ FilePassedLast
    /\ n_files = 2
    /\ decoded_files = <<ExampleSeries, <<5, 0, 5>>>>
    /\ events_cfg[n_events + 1] = ExampleEvent
    /\ ReportedFalling = {2}
    /\ ReportedRising = {3}

\* ---- properties of the temporary directories ----
\* C27: every temporary directory created for one unit of work (the download directory of
\* the aggregator for one device and day, the download and extraction directories of the
\* backlog entry script) no longer exists when the unit returns, on every exit path:
\* success, data error, failure code or raised exception.
C27_TempDirsReleased ==
    dpc \in {"returned", "raised"} => temp_dirs = {}

\* the entry script has created both directories, the import of the backlog script has
\* raised, and the unit has returned 1 with no directory left
C27_Witness ==
    /\ dpc = "returned"
    /\ temp_unit = "entry"
    /\ temp_plan = <<"import", "none">>
    /\ temp_created = {temp_dir, extract_dir}
    /\ temp_ret = "1"
    /\ temp_dirs = {}

\* ---- properties of the cluster loop ----
\* no entry of cluster_details lists the cluster
Unlisted(cluster) ==
    \A i \in 1..Len(cluster_details) :
        /\ cluster_details[i].cluster # cluster
        /\ cluster \notin cluster_details[i].clusters

\* the records of the listed clusters among the first n device clusters, for one day
RECURSIVE ListedRecords(_, _)
ListedRecords(n, day) ==
    IF n = 0 THEN <<>>
    ELSE ListedRecords(n - 1, day)
             \o (IF Unlisted(device_clusters[n].cluster) THEN <<>>
                 ELSE ClusterRecords(device_clusters[n], day))

\* the writes of the first d days when every unlisted cluster is skipped
RECURSIVE ListedWritten(_)
ListedWritten(d) ==
    IF d = 0 THEN <<>>
    ELSE ListedWritten(d - 1)
             \o (IF ListedRecords(Len(device_clusters), d) # <<>>
                 THEN <<[day |-> d, results |-> ListedRecords(Len(device_clusters), d)]>>
                 ELSE <<>>)

\* a run has skipped the unlisted clusters so far
SkipsUnlisted(run) ==
    /\ run.pc # "raised"
    /\ run.pc = "clusters" => run.daily_results = ListedRecords(run.n_clusters, run.day)
    /\ run.pc = "done" => run.written = ListedWritten(MaxClusterDays)

\* C29: a device_clusters entry whose cluster is listed in no cluster_details entry is
\* skipped by process_data_lake without raising: no records are produced for its devices,
\* and the remaining clusters of that day and all later days are still processed.
C29_UnlistedClusterSkipped ==
    (\E k \in 1..Len(device_clusters) : Unlisted(device_clusters[k].cluster)) =>
        /\ SkipsUnlisted(cluster_run)
        /\ SkipsUnlisted(cluster_run_s3)

\* What holds: process_data_lake of AggregateData skips the unlisted clusters.
AggregateDataSkipsUnlisted ==
    (\E k \in 1..Len(device_clusters) : Unlisted(device_clusters[k].cluster)) =>
        SkipsUnlisted(cluster_run)

\* AggregateData has finished the days with an unlisted cluster before a listed one
AggregateDataSkipsUnlistedReached ==
    /\ cluster_run.pc = "done"
    /\ Len(device_clusters) = 2
    /\ Unlisted(device_clusters[1].cluster)
    /\ ~Unlisted(device_clusters[2].cluster)
    /\ Len(cluster_run.written) = MaxClusterDays

====
